---- MODULE Spec2Model ----
(***************************************************************************)
(* Model of the birthday bot: the Birthday Store (database.js), the daily  *)
(* scheduler with its cleanup phase (birthday-cron.js), the form           *)
(* submission handler and the set-birthday command (commands.js),          *)
(* Collection Trigger / Thread Poster (birthday-service part of            *)
(* commands.js), the name resolver findUserByName behind                   *)
(* /set-birthday-auto, and /see-birthdays.                                 *)
(*                                                                         *)
(* A stored birth_date is modelled by the sequence of the integer values   *)
(* of its '-'-separated fields, i.e. by what split('-') and parseInt make  *)
(* of it: "08-06" is <<8, 6>>, the placeholder '1900-01-01' is             *)
(* <<1900, 1, 1>>.                                                         *)
(***************************************************************************)
EXTENDS Integers, Sequences, FiniteSets, TLC

VARIABLES
  today,        \* the current calendar date [y, m, d]
  ranToday,     \* the 09:00 cron trigger of today has fired
  directory,    \* the platform's member directory: user -> [status, page, kind]
  birthdays,    \* table birthdays, in rowid order
  messages,     \* table birthday_messages, in insertion order
  descriptions, \* table description_messages, in insertion order
  nextId,       \* AUTOINCREMENT counters of the two row tables
  cron,         \* the scheduler run (cleanup phase, dispatch loop)
  trigger,      \* triggerBirthdayCollection invocations, one per caller
  poster,       \* postBirthdayThread invocations, one per caller
  cmd,          \* the slash command in flight
  sub,          \* the form submission in flight
  setsRun,      \* number of set-birthday commands run so far
  cmdsRun,      \* number of manual collect and post-thread commands run so far
  posted,       \* how often each row was posted to the celebration channel
  probe,        \* input and result of a stand-alone offset computation
  userCache,    \* the resolver's cache: entries [key, user, timestamp]
  now,          \* Date.now() as the resolver reads it, in minutes
  search,       \* the /set-birthday-auto command in flight and its findUserByName call
  see,          \* the /see-birthdays command in flight
  ending        \* how the last command or form handler ended, where that is watched

store == <<birthdays, messages, descriptions, nextId>>
procs == <<cron, trigger, poster, cmd, sub>>
env == <<today, ranToday, directory, setsRun, cmdsRun>>
resolver == <<userCache, now, search, see>>
lookup == <<resolver, ending>>
vars == <<today, ranToday, directory, setsRun, cmdsRun, birthdays, messages, descriptions, nextId,
          cron, trigger, poster, cmd, sub, posted, probe, lookup>>

(***************************************************************************)
(* Calendar arithmetic of the JavaScript Date constructor.                 *)
(***************************************************************************)
IsLeap(y) == (y % 4 = 0 /\ y % 100 # 0) \/ y % 400 = 0

DaysInMonth(y, m) ==
  IF m = 2 THEN (IF IsLeap(y) THEN 29 ELSE 28)
  ELSE IF m \in {4, 6, 9, 11} THEN 30 ELSE 31

DaysBeforeYear(y) ==
  365 * (y - 1) + ((y - 1) \div 4) - ((y - 1) \div 100) + ((y - 1) \div 400)

RECURSIVE DaysBeforeMonth(_, _)
DaysBeforeMonth(y, m) ==
  IF m <= 1 THEN 0 ELSE DaysBeforeMonth(y, m - 1) + DaysInMonth(y, m - 1)

\* new Date(y, m - 1, d) at local midnight, as a day number; a day beyond the
\* end of the month overflows into the following months, as in JavaScript.
DateSerial(y, m, d) == DaysBeforeYear(y) + DaysBeforeMonth(y, m) + d - 1

RECURSIVE YearFrom(_, _)
YearFrom(n, y) == IF DaysBeforeYear(y + 1) <= n THEN YearFrom(n, y + 1) ELSE y

RECURSIVE MonthFrom(_, _, _)
MonthFrom(n, y, m) ==
  IF m < 12 /\ DateSerial(y, m + 1, 1) <= n THEN MonthFrom(n, y, m + 1) ELSE m

\* getFullYear / getMonth / getDate of a day number
CivilDate(n) ==
  LET y == YearFrom(n, (n \div 366) + 1)
      m == MonthFrom(n, y, 1)
  IN  [y |-> y, m |-> m, d |-> n - DateSerial(y, m, 1) + 1]

TodaySerial(t) == DateSerial(t.y, t.m, t.d)

\* difference in hours between two local midnights that a daylight-saving
\* transition between them can add
DstShifts == {-1, 0, 1}

\* Math.round(h / 24) for a whole number of hours h
RoundDays(h) == (h + 12) \div 24

\* birthdayDate of birthday-cron.js:87-95, as a day number
BirthdayDate(t, bd) ==
  LET b0 == DateSerial(t.y, bd[2], bd[1])
  IN  IF b0 < TodaySerial(t)
        THEN LET c == CivilDate(b0) IN DateSerial(t.y + 1, c.m, c.d)
        ELSE b0

\* diffDays of birthday-cron.js:97-98
DiffDays(t, bd, shift) ==
  RoundDays(24 * (BirthdayDate(t, bd) - TodaySerial(t)) + shift)

(***************************************************************************)
(* Inputs                                                                  *)
(***************************************************************************)
FirstYear == 2023
NumYears == 2
Years == FirstYear .. (FirstYear + NumYears - 1)

Placeholder == <<1900, 1, 1>>

\* the dates isValidDate accepts: day within the month of reference year 2000
ReferenceYear == 2000
ValidDates ==
  {<<d, m>> : d \in 1..31, m \in 1..12} \
  {bd \in {<<d, m>> : d \in 1..31, m \in 1..12} : bd[1] > DaysInMonth(ReferenceYear, bd[2])}

AllDays ==
  {t \in [y : Years, m : 1..12, d : 1..31] : t.d <= DaysInMonth(t.y, t.m)}

NoProbe == [birth |-> <<>>, offset |-> 0, done |-> FALSE]

(***************************************************************************)
(* Bounds and input sets of the system model                                *)
(***************************************************************************)
Users == {"U1", "U2"}
Celebrants == {"U1"}    \* the users the manual commands are run for
Senders == {"U2"}
Texts == {"hi"}
MoreTexts == {"yo"}     \* further tribute texts submitted on the birthday itself
Callers == {"cron", "cmd"}
None == "none"
Null == <<>>

StartDate == [y |-> 2024, m |-> 6, d |-> 1]
MaxDay == 1          \* days the clock may advance past StartDate
MaxIds == 2          \* rows ever inserted per row table
MaxSets == 1         \* set-birthday commands ever run
MaxCmds == 1         \* manual collect and post-thread commands ever run
MaxPosts == 2        \* posts counted per row

\* dates given to /set-birthday: offsets 7, 1 and 0 on StartDate
BirthDates == {<<8, 6>>, <<2, 6>>, <<1, 6>>}

MaxSearchAttempts == 10

\* the resolver's clock runs from 0 to MaxClock minutes
MaxClock == 6
FarPage == MaxSearchAttempts + 1

(***************************************************************************)
(* Birthday Store (database.js)                                            *)
(***************************************************************************)
\* checkUserExists: COUNT(*) > 0
HasRecord(bs, u) == \E i \in 1..Len(bs) : bs[i].user_id = u

RemoveUser(bs, u) == SelectSeq(bs, LAMBDA r : r.user_id # u)

\* an insert that leaves the row of the same user in place
InsertBirthday_NoReplace(bs, u, date) ==
  Append(bs, [user_id |-> u, birth_date |-> IF date = Null THEN Placeholder ELSE date])

\* insertBirthday: INSERT OR REPLACE, COALESCE(?, '1900-01-01'); the replaced
\* row gets a new rowid and so moves to the end of the table scan
InsertBirthday(bs, u, date) ==
  Append(RemoveUser(bs, u),
         [user_id |-> u, birth_date |-> IF date = Null THEN Placeholder ELSE date])

\* a store that does not enforce foreign keys
ForeignKeyOk_NotEnforced(bs, c) == TRUE

\* foreign_keys = ON, FOREIGN KEY (celebrant_id) REFERENCES birthdays(user_id):
\* a row can be inserted for celebrant c
ForeignKeyOk(bs, c) == HasRecord(bs, c)

\* unique index (celebrant_id, sender_id, message, DATE(created_at))
IsDuplicate(tbl, c, s, m, day) ==
  \E i \in 1..Len(tbl) :
     /\ tbl[i].celebrant_id = c /\ tbl[i].sender_id = s
     /\ tbl[i].message = m /\ tbl[i].created = day

NewRow(id, c, s, m, day) ==
  [id |-> id, celebrant_id |-> c, sender_id |-> s, message |-> m,
   created |-> day, sent |-> FALSE]

\* an insert without the unique index
InsertOrIgnore_NoIndex(tbl, id, c, s, m, day) == Append(tbl, NewRow(id, c, s, m, day))

\* insertBirthdayMessage / insertDescriptionMessage: INSERT OR IGNORE
InsertOrIgnore(tbl, id, c, s, m, day) ==
  IF IsDuplicate(tbl, c, s, m, day) THEN tbl ELSE Append(tbl, NewRow(id, c, s, m, day))

\* a listing that forgets the delivered flag
Undelivered_AllRows(tbl, c) == SelectSeq(tbl, LAMBDA r : r.celebrant_id = c)

\* a read that returns the undelivered rows newest first
Undelivered_NewestFirst(tbl, c) ==
  LET rows == SelectSeq(tbl, LAMBDA r : r.celebrant_id = c /\ ~r.sent)
  IN  [i \in 1..Len(rows) |-> rows[Len(rows) + 1 - i]]

\* getBirthdayMessages / getDescriptionMessages: undelivered rows, oldest first
Undelivered(tbl, c) == SelectSeq(tbl, LAMBDA r : r.celebrant_id = c /\ ~r.sent)

\* getBirthdayMessageCount
MessageCount(tbl, c) == Len(Undelivered(tbl, c))

\* an update without the celebrant in its WHERE clause
MarkSent_Everyone(tbl, c) ==
  [i \in 1..Len(tbl) |-> [tbl[i] EXCEPT !.sent = TRUE]]

\* markMessagesAsSent / markDescriptionMessagesAsSent
MarkSent(tbl, c) ==
  [i \in 1..Len(tbl) |->
     IF tbl[i].celebrant_id = c /\ ~tbl[i].sent
       THEN [tbl[i] EXCEPT !.sent = TRUE] ELSE tbl[i]]

\* getBirthday: the rows WHERE user_id = ?
GetBirthday(bs, u) == SelectSeq(bs, LAMBDA r : r.user_id = u)

\* deleteBirthdayMessagesForUser / deleteDescriptionMessagesForUser
DeleteRowsForUser(tbl, c) == SelectSeq(tbl, LAMBDA r : r.celebrant_id # c)

\* deleteUser
DeleteUser(bs, u) == RemoveUser(bs, u)

(***************************************************************************)
(* Member directory (users.list, users.info)                               *)
(***************************************************************************)
\* users.list and users.info know every user, deactivated ones with deleted: true
Statuses == {"active", "deleted"}

\* is_bot, is_restricted, is_ultra_restricted of a member
Kinds == {"member", "bot", "restricted", "ultra_restricted"}

\* the platform's system account
SystemAccount == "USLACKBOT"

\* number of pages of the listing: the members of Users are on page 1 or on
\* page FarPage; the pages between hold other members
NumPages ==
  LET ps == {directory[u].page : u \in DOMAIN directory}
  IN  CHOOSE p \in ps : \A q \in ps : q <= p

\* response.members of page p
PageMembers(p) ==
  {[id |-> u, deleted |-> directory[u].status = "deleted",
    is_bot |-> directory[u].kind = "bot",
    is_restricted |-> directory[u].kind \in {"restricted", "ultra_restricted"},
    is_ultra_restricted |-> directory[u].kind = "ultra_restricted"] :
     u \in {v \in DOMAIN directory : directory[v].page = p}}

\* response_metadata.next_cursor of page p (0: none)
NextCursor(p) == IF p < NumPages THEN p + 1 ELSE 0

\* a listing loop without the cap
LoopGoesOn_Uncapped(searchAttempts, cursor) == cursor # 0

\* the listing loops (birthday-cron.js:19-42, commands.js:32-120, 321-345):
\* after a page, the loop fetches another one when there is a cursor and the
\* incremented searchAttempts does not exceed maxSearchAttempts
LoopGoesOn(searchAttempts, cursor) ==
  cursor # 0 /\ searchAttempts + 1 <= MaxSearchAttempts

\* the members whose membership varies: they may be deactivated or be listed
\* far back; the other users are active members on page 1
Leavers == {"U1"}

\* the platform's membership when Collection Trigger is looked at: next to
\* the users a third colleague, a bot and the system account
Members == Users \cup {"U3", "B1", SystemAccount}

\* U1 is the celebrant; U2 may be deactivated, U3 may be a guest, and both
\* may be listed on the second page
TriggerDirectories ==
  {dir \in [Members -> [status : Statuses, page : {1, 2}, kind : Kinds]] :
     /\ dir["U1"] = [status |-> "active", page |-> 1, kind |-> "member"]
     /\ dir["U2"].kind = "member"
     /\ dir["U3"].status = "active" /\ dir["U3"].kind # "bot"
     /\ dir["B1"] = [status |-> "active", page |-> 1, kind |-> "bot"]
     /\ dir[SystemAccount] = [status |-> "active", page |-> 1, kind |-> "member"]}

Directories ==
  {dir \in [Users -> [status : Statuses, page : {1, FarPage}, kind : {"member"}]] :
     \A u \in Users \ Leavers : dir[u] = [status |-> "active", page |-> 1, kind |-> "member"]}

(***************************************************************************)
(* Initial state                                                           *)
(***************************************************************************)
IdleCron ==
  [pc |-> "idle", births |-> <<>>, allUsers |-> {}, attempts |-> 0, page |-> 0,
   list |-> <<>>, i |-> 0, log |-> <<>>, cleanupFailed |-> FALSE, raisedAt |-> 0]

\* queue: the members still to be asked; tried: the members asked so far, each
\* with whether its prompt was sent; prompted: the prompts sent; failed:
\* users.list raised
IdleTrigger ==
  [pc |-> "idle", c |-> None, queue |-> <<>>, tried |-> <<>>, prompted |-> <<>>,
   failed |-> FALSE]

\* descs, msgs, k: the invocation's local variables; thread: the posts it has
\* made; startMsgs, startDescs, startNext: the ids of the celebrant's
\* undelivered rows and the id counters when it was called
IdlePoster ==
  [pc |-> "idle", c |-> None, descs |-> <<>>, msgs |-> <<>>, k |-> 0,
   thread |-> <<>>, startMsgs |-> {}, startDescs |-> {},
   startNext |-> [msg |-> 0, desc |-> 0], failed |-> FALSE]

\* said: the reply the command handler gives its user
IdleCmd == [pc |-> "idle", said |-> None]
IdleSub == [pc |-> "idle", c |-> None, s |-> None, msg |-> None, desc |-> None]

\* firstName, lastName, cursor (the page to fetch), searchAttempts, user: the
\* locals of findUserByName; raised: it threw; fetched: the pages fetched
IdleSearch ==
  [pc |-> "idle", firstName |-> None, lastName |-> None, cursor |-> 0,
   searchAttempts |-> 0, user |-> None, raised |-> FALSE, fetched |-> 0, hit |-> {},
   text |-> <<>>, birthDate |-> <<>>]

\* cursor, searchAttempts, allUsers: the locals of /see-birthdays
IdleSee ==
  [pc |-> "idle", cursor |-> 0, searchAttempts |-> 0, allUsers |-> {},
   raised |-> FALSE, fetched |-> 0]

\* the birthdays tables that set-birthday commands and Collection Trigger can
\* leave behind: one row per user, a valid date or the placeholder
StoredDates == BirthDates \cup {Placeholder}

StoredBirthdays ==
  {<<>>}
  \cup {<<[user_id |-> u, birth_date |-> d]>> : u \in Users, d \in StoredDates}
  \cup {<<[user_id |-> p[1], birth_date |-> p[3]], [user_id |-> p[2], birth_date |-> p[4]]>> :
          p \in {q \in Users \X Users \X StoredDates \X StoredDates : q[1] # q[2]}}

\* how a handler ended: the text it was given, the error it caught first, the
\* message that reached its user, whether an exception left the handler, the
\* rows its statements changed.  on: the handlers' endings are recorded
NoEnding ==
  [on |-> FALSE, handler |-> None, text |-> <<>>, error |-> None, reply |-> None,
   escaped |-> FALSE, changes |-> 0]

Watching == [NoEnding EXCEPT !.on = TRUE]

Ended(handler, text, error, reply, escaped, changes) ==
  IF ending.on
    THEN [on |-> TRUE, handler |-> handler, text |-> text, error |-> error, reply |-> reply,
          escaped |-> escaped, changes |-> changes]
    ELSE ending

\* the number of chat.postMessage or say calls of a handler that fail before
\* one succeeds
MaxFailing == 3
FailingPosts == IF ending.on THEN 0..MaxFailing ELSE {0}

\* the message that reaches the user when the handler tries the messages of
\* chain in turn, each after the failure of the one before
Delivered(chain, failing) == IF failing < Len(chain) THEN chain[failing + 1] ELSE None

\* the last of these messages is said in a catch block that nothing encloses:
\* its failure leaves the handler
Escapes(chain, failing) == failing >= Len(chain)

InitHandlers ==
  /\ ranToday = FALSE
  /\ setsRun = 0
  /\ cmdsRun = 0
  /\ messages = <<>>
  /\ descriptions = <<>>
  /\ nextId = [msg |-> 1, desc |-> 1]
  /\ cron = IdleCron
  /\ trigger = [k \in Callers |-> IdleTrigger]
  /\ poster = [k \in Callers |-> IdlePoster]
  /\ cmd = IdleCmd
  /\ sub = IdleSub
  /\ posted = [msg |-> [i \in 1..MaxIds |-> 0], desc |-> [i \in 1..MaxIds |-> 0]]
  /\ userCache = {}
  /\ now = 0
  /\ search = IdleSearch
  /\ see = IdleSee

InitProcs ==
  /\ InitHandlers
  /\ ending = NoEnding

Init ==
  /\ today = StartDate
  /\ directory \in Directories
  /\ probe = NoProbe
  /\ birthdays = <<>>
  /\ InitProcs

\* the scheduler starts from a store that earlier commands have filled
InitSched ==
  /\ today = StartDate
  /\ directory \in Directories
  /\ probe = NoProbe
  /\ birthdays \in StoredBirthdays
  /\ InitProcs

(***************************************************************************)
(* /set-birthday (commands.js:148-205)                                     *)
(***************************************************************************)
\* a valid date and a user that users.info finds: the birthday is upserted
SetBirthday(u, date) ==
  /\ setsRun < MaxSets
  /\ date \in ValidDates
  /\ birthdays' = InsertBirthday(birthdays, u, date)
  /\ setsRun' = setsRun + 1
  /\ UNCHANGED <<today, ranToday, directory, cmdsRun, messages, descriptions, nextId, procs, posted, probe, lookup>>

(***************************************************************************)
(* submit_birthday_content (commands.js:462-584)                           *)
(***************************************************************************)
Confirmation == "Thanks for submitting your ..."
SavingError == "Sorry, there was an error saving your submission(s). Please try again."
SubmittingError ==
  "Sorry, there was an error submitting your content. Please let Ian know and try again."

\* the errors the handler catches
CelebrantUnknown == "User does not exist in birthdays table"
ForeignKeyFailed == "FOREIGN KEY constraint failed"
InfoFailed == "users.info failed"
PostFailed == "chat.postMessage failed"

\* outer catch (commands.js:573-583): one message, a failure to post it is logged
OuterCatch == <<SubmittingError>>

\* inner catch (commands.js:565-571): its message is posted inside the outer try
InnerCatch == <<SavingError>> \o OuterCatch

\* a handler that takes an insert that changed no row for a failed one
AfterInserts_DuplicateFails(changes) ==
  IF changes = 0 THEN InnerCatch ELSE <<Confirmation>> \o InnerCatch

\* commands.js:516-557: result.changes === 0 is logged, the confirmation is
\* posted whatever the inserts changed
AfterInserts(changes) == <<Confirmation>> \o InnerCatch

\* ack, celebrant check, then users.info of the sender is awaited
SubmitStart(c, s, m, d) ==
  /\ sub.pc = "idle"
  /\ HasRecord(birthdays, c)
  /\ m # None \/ d # None
  /\ sub' = [pc |-> "info", c |-> c, s |-> s, msg |-> m, desc |-> d]
  /\ UNCHANGED <<env, store, cron, trigger, poster, cmd, posted, probe, lookup>>

\* celebrant without a birthday record: the handler throws before any write
\* and the outer catch posts its message
SubmitUnknownCelebrant(c, s) ==
  /\ sub.pc = "idle"
  /\ ~HasRecord(birthdays, c)
  /\ \E failing \in FailingPosts :
       ending' = Ended("submit", <<>>, CelebrantUnknown, Delivered(OuterCatch, failing), FALSE, 0)
  /\ UNCHANGED <<env, store, procs, posted, probe, resolver>>

\* users.info fails: outer catch, nothing written
SubmitInfoFail ==
  /\ sub.pc = "info"
  /\ sub' = IdleSub
  /\ \E failing \in FailingPosts :
       ending' = Ended("submit", <<>>, InfoFailed, Delivered(OuterCatch, failing), FALSE, 0)
  /\ UNCHANGED <<env, store, cron, trigger, poster, cmd, posted, probe, resolver>>

\* users.info returned: the inserts run; with foreign_keys = ON an insert for a
\* celebrant whose birthday row is gone raises and nothing is written
SubmitInsert ==
  /\ sub.pc = "info"
  /\ LET day == TodaySerial(today)
         fk == ForeignKeyOk(birthdays, sub.c)
         doMsg == fk /\ sub.msg # None
         doDesc == fk /\ sub.desc # None
         newMsg == doMsg /\ ~IsDuplicate(messages, sub.c, sub.s, sub.msg, day)
         newDesc == doDesc /\ ~IsDuplicate(descriptions, sub.c, sub.s, sub.desc, day)
     IN  /\ newMsg => nextId.msg <= MaxIds
         /\ newDesc => nextId.desc <= MaxIds
         /\ messages' = IF doMsg
                          THEN InsertOrIgnore(messages, nextId.msg, sub.c, sub.s, sub.msg, day)
                          ELSE messages
         /\ descriptions' = IF doDesc
                              THEN InsertOrIgnore(descriptions, nextId.desc, sub.c, sub.s, sub.desc, day)
                              ELSE descriptions
         /\ nextId' = [nextId EXCEPT !.msg = IF newMsg THEN @ + 1 ELSE @,
                                     !.desc = IF newDesc THEN @ + 1 ELSE @]
         /\ \E failing \in FailingPosts :
              LET changes == (IF newMsg THEN 1 ELSE 0) + (IF newDesc THEN 1 ELSE 0)
                  chain == IF fk THEN AfterInserts(changes) ELSE InnerCatch
                  error == IF ~fk THEN ForeignKeyFailed
                           ELSE IF failing > 0 THEN PostFailed ELSE None
              IN  ending' = Ended("submit", <<>>, error, Delivered(chain, failing), FALSE, changes)
  /\ sub' = IdleSub
  /\ UNCHANGED <<env, birthdays, cron, trigger, poster, cmd, posted, probe, resolver>>

(***************************************************************************)
(* Collection Trigger: triggerBirthdayCollection (commands.js:792-851)     *)
(***************************************************************************)
\* the order in which users.list returns the members
MemberOrder == <<"U1", "U2", "U3", "B1", "USLACKBOT">>

\* a trigger that inserts the placeholder without looking for a record
EnsureRecord_Unchecked(bs, c) == InsertBirthday(bs, c, Null)

\* the store after the placeholder record is ensured (commands.js:794-797)
EnsureRecord(bs, c) == IF HasRecord(bs, c) THEN bs ELSE InsertBirthday(bs, c, Null)

StartedTrigger(c) == [IdleTrigger EXCEPT !.pc = "list", !.c = c]

\* a filter that lets bots through
IsEligible_BotsToo(m, c) ==
  /\ ~m.deleted
  /\ ~m.is_restricted
  /\ ~m.is_ultra_restricted
  /\ m.id # c
  /\ m.id # SystemAccount

\* the filter of commands.js:800-808
IsEligible(m, c) ==
  /\ ~m.is_bot
  /\ ~m.deleted
  /\ ~m.is_restricted
  /\ ~m.is_ultra_restricted
  /\ m.id # c
  /\ m.id # SystemAccount

\* users.list() is called once, without a cursor: the members of page 1
EligibleMembers(c) ==
  SelectSeq(MemberOrder,
            LAMBDA u : \E m \in PageMembers(1) : m.id = u /\ IsEligible(m, c))

\* users.list raises: caught at commands.js:848
TriggerListFail(k) ==
  /\ trigger[k].pc = "list"
  /\ trigger' = [trigger EXCEPT ![k].pc = "done", ![k].failed = TRUE]
  /\ UNCHANGED <<env, store, cron, poster, cmd, sub, posted, probe, lookup>>

TriggerListOk(k) ==
  /\ trigger[k].pc = "list"
  /\ LET q == EligibleMembers(trigger[k].c)
     IN  trigger' = [trigger EXCEPT ![k].queue = q,
                                    ![k].pc = IF q = <<>> THEN "done" ELSE "send"]
  /\ UNCHANGED <<env, store, cron, poster, cmd, sub, posted, probe, lookup>>

\* how the prompt of one member can go: conversations.open raises or answers
\* ok: false, chat.postMessage raises, or the prompt is sent
BatchOutcomes == {"open_failed", "open_not_ok", "send_failed", "sent"}

\* a batch whose failure reaches the outer catch and ends the operation
AfterBatch_FailureAborts(tr, outcome) ==
  LET u == Head(tr.queue)
      rest == IF outcome = "sent" THEN Tail(tr.queue) ELSE <<>>
  IN  [tr EXCEPT !.tried = Append(@, [id |-> u, sent |-> outcome = "sent"]),
                 !.prompted = IF outcome = "sent" THEN Append(@, u) ELSE @,
                 !.queue = rest,
                 !.pc = IF rest = <<>> THEN "done" ELSE "send"]

\* commands.js:814-847: one batch of one member; every failure is caught
\* inside the batch and the loop goes on
AfterBatch(tr, outcome) ==
  LET u == Head(tr.queue)
      rest == Tail(tr.queue)
  IN  [tr EXCEPT !.tried = Append(@, [id |-> u, sent |-> outcome = "sent"]),
                 !.prompted = IF outcome = "sent" THEN Append(@, u) ELSE @,
                 !.queue = rest,
                 !.pc = IF rest = <<>> THEN "done" ELSE "send"]

\* one batch of one member: conversations.open, chat.postMessage, delay
TriggerBatch(k, outcome) ==
  /\ trigger[k].pc = "send"
  /\ trigger' = [trigger EXCEPT ![k] = AfterBatch(trigger[k], outcome)]
  /\ UNCHANGED <<env, store, cron, poster, cmd, sub, posted, probe, lookup>>

(***************************************************************************)
(* Thread Poster: postBirthdayThread (commands.js:853-924)                 *)
(***************************************************************************)
IdsOf(rows) == {rows[i].id : i \in 1..Len(rows)}

PendingIds(tbl, c) ==
  {tbl[i].id : i \in {j \in 1..Len(tbl) : tbl[j].celebrant_id = c /\ ~tbl[j].sent}}

StartedPoster(c) ==
  [IdlePoster EXCEPT !.pc = "announce", !.c = c,
                     !.startMsgs = PendingIds(messages, c),
                     !.startDescs = PendingIds(descriptions, c),
                     !.startNext = nextId]

Post(kind, ids) == [kind |-> kind, ids |-> ids]

Bump(f, ids) == [i \in DOMAIN f |-> IF i \in ids /\ f[i] < MaxPosts THEN f[i] + 1 ELSE f[i]]

\* commands.js:902-919 up to the first await: read the undelivered tributes;
\* with none to post, mark and return
MessagePhase(pr, msgTable) ==
  LET ms == Undelivered(msgTable, pr.c)
  IN  IF ms = <<>>
        THEN [pr EXCEPT !.msgs = ms, !.pc = "done"]
        ELSE [pr EXCEPT !.msgs = ms, !.k = 1, !.pc = "postMsg"]

\* any awaited call of the poster raises: caught at commands.js:921
PosterFail(k) ==
  /\ poster[k].pc \in {"announce", "postPoem", "postDescs", "postMsg"}
  /\ poster' = [poster EXCEPT ![k].pc = "done", ![k].failed = TRUE]
  /\ UNCHANGED <<env, store, cron, trigger, cmd, sub, posted, probe, lookup>>

\* the announcement is posted
PosterAnnounced(k) ==
  /\ poster[k].pc = "announce"
  /\ LET pr == [poster[k] EXCEPT !.thread = Append(@, Post("announce", {}))]
         ds == Undelivered(descriptions, pr.c)
     IN  IF ds # <<>>
           THEN /\ poster' = [poster EXCEPT ![k] = [pr EXCEPT !.descs = ds, !.pc = "poem"]]
                /\ UNCHANGED messages
           ELSE /\ poster' = [poster EXCEPT ![k] = MessagePhase(pr, messages)]
                /\ messages' = IF Undelivered(messages, pr.c) = <<>>
                                 THEN MarkSent(messages, pr.c) ELSE messages
  /\ UNCHANGED <<env, birthdays, descriptions, nextId, cron, trigger,
                 cmd, sub, posted, probe, lookup>>

\* generateBirthdayPoem returned (the poem or the fallback): the poem is posted
PosterPoemReady(k) ==
  /\ poster[k].pc = "poem"
  /\ poster' = [poster EXCEPT ![k].pc = "postPoem"]
  /\ UNCHANGED <<env, store, cron, trigger, cmd, sub, posted, probe, lookup>>

PosterPoemPosted(k) ==
  /\ poster[k].pc = "postPoem"
  /\ poster' = [poster EXCEPT ![k].thread = Append(@, Post("poem", {})),
                              ![k].pc = "postDescs"]
  /\ UNCHANGED <<env, store, cron, trigger, cmd, sub, posted, probe, lookup>>

\* the aggregated descriptions are posted: mark the descriptions, go on to the
\* tributes
PosterDescsPosted(k) ==
  /\ poster[k].pc = "postDescs"
  /\ LET pr == [poster[k] EXCEPT !.thread = Append(@, Post("descs", IdsOf(poster[k].descs)))]
     IN  /\ descriptions' = MarkSent(descriptions, pr.c)
         /\ poster' = [poster EXCEPT ![k] = MessagePhase(pr, messages)]
         /\ messages' = IF Undelivered(messages, pr.c) = <<>>
                          THEN MarkSent(messages, pr.c) ELSE messages
         /\ posted' = [posted EXCEPT !.desc = Bump(@, IdsOf(pr.descs))]
  /\ UNCHANGED <<env, birthdays, nextId, cron, trigger, cmd, sub, probe, lookup>>

\* one tribute reply is posted; after the last one all tributes are marked
PosterMsgPosted(k) ==
  /\ poster[k].pc = "postMsg"
  /\ LET pr == poster[k]
         row == pr.msgs[pr.k]
         last == pr.k = Len(pr.msgs)
     IN  /\ poster' = [poster EXCEPT
                         ![k].thread = Append(@, Post("tribute", {row.id})),
                         ![k].k = IF last THEN @ ELSE @ + 1,
                         ![k].pc = IF last THEN "done" ELSE "postMsg"]
         /\ messages' = IF last THEN MarkSent(messages, pr.c) ELSE messages
         /\ posted' = [posted EXCEPT !.msg = Bump(@, {row.id})]
  /\ UNCHANGED <<env, birthdays, descriptions, nextId, cron, trigger,
                 cmd, sub, probe, lookup>>

(***************************************************************************)
(* /post-birthday-thread and /collect-birthday-messages                    *)
(* (commands.js:586-635, 411-460)                                          *)
(***************************************************************************)
\* how a postBirthdayThread call ends for its caller: the catch at
\* commands.js:921-923 logs the error and returns, so the promise resolves
PosterOutcome(pr) == "resolved"

\* the reply of /post-birthday-thread (commands.js:618-631)
ThreadReply(outcome) == IF outcome = "resolved" THEN "posted" ELSE "error"

\* the reply of /collect-birthday-messages (commands.js:443-456);
\* triggerBirthdayCollection catches its errors too (commands.js:848-850)
CollectReply(outcome) == IF outcome = "resolved" THEN "initiated" ELSE "error"

CmdPostThread(u) ==
  /\ cmd.pc = "idle"
  /\ cmdsRun < MaxCmds
  /\ cmdsRun' = cmdsRun + 1
  /\ cmd' = [IdleCmd EXCEPT !.pc = "wait_thread"]
  /\ poster' = [poster EXCEPT !["cmd"] = StartedPoster(u)]
  /\ UNCHANGED <<today, ranToday, directory, setsRun, store, cron, trigger, sub, posted, probe, lookup>>

CmdPostThreadReturn ==
  /\ cmd.pc = "wait_thread"
  /\ poster["cmd"].pc = "done"
  /\ cmd' = [pc |-> "say", said |-> ThreadReply(PosterOutcome(poster["cmd"]))]
  /\ poster' = [poster EXCEPT !["cmd"] = IdlePoster]
  /\ UNCHANGED <<env, store, cron, trigger, sub, posted, probe, lookup>>

CmdCollect(u) ==
  /\ cmd.pc = "idle"
  /\ cmdsRun < MaxCmds
  /\ cmdsRun' = cmdsRun + 1
  /\ cmd' = [IdleCmd EXCEPT !.pc = "wait_trigger"]
  /\ birthdays' = EnsureRecord(birthdays, u)
  /\ trigger' = [trigger EXCEPT !["cmd"] = StartedTrigger(u)]
  /\ UNCHANGED <<today, ranToday, directory, setsRun, messages, descriptions, nextId, cron, poster,
                 sub, posted, probe, lookup>>

CmdCollectReturn ==
  /\ cmd.pc = "wait_trigger"
  /\ trigger["cmd"].pc = "done"
  /\ cmd' = [pc |-> "say", said |-> CollectReply("resolved")]
  /\ trigger' = [trigger EXCEPT !["cmd"] = IdleTrigger]
  /\ UNCHANGED <<env, store, cron, poster, sub, posted, probe, lookup>>

\* say() returned: the handler is over
CmdSaid ==
  /\ cmd.pc = "say"
  /\ cmd' = IdleCmd
  /\ UNCHANGED <<env, store, cron, trigger, poster, sub, posted, probe, lookup>>

(***************************************************************************)
(* Directory Resolver: findUserByName (commands.js:16-131)                 *)
(*                                                                         *)
(* A name is the sequence of its words; a member's profile holds           *)
(* real_name, real_name_normalized and display_name_normalized as names    *)
(* and first_name, last_name as words.                                     *)
(***************************************************************************)
\* a name field that is missing or empty
NoName == <<>>

\* String.prototype.toLowerCase on the words in use; the other words are in
\* lower case already
ToLowerCase(w) ==
  CASE w \in {"Jane", "JANE", "jane"} -> "jane"
    [] w \in {"Doe", "doe"} -> "doe"
    [] w = "Roe" -> "roe"
    [] w = "Smith" -> "smith"
    [] w = "Bob" -> "bob"
    [] w = "Ann" -> "ann"
    [] w = "Lee" -> "lee"
    [] w = "Slackbot" -> "slackbot"
    [] OTHER -> w

\* name.trim().toLowerCase()
LowerName(name) == [i \in DOMAIN name |-> ToLowerCase(name[i])]

\* `${firstName} ${lastName}`.trim().toLowerCase()
FullName(firstName, lastName) == LowerName(<<firstName, lastName>>)

\* the profiles members can have
JaneDoe ==
  [real_name |-> <<"JANE", "Doe">>, real_name_normalized |-> <<"Jane", "Doe">>,
   display_name_normalized |-> <<"jane">>, first_name |-> "Jane", last_name |-> "Doe"]
JaneDoeNormalized ==
  [real_name |-> NoName, real_name_normalized |-> <<"Jane", "Doe">>,
   display_name_normalized |-> NoName, first_name |-> None, last_name |-> None]
JaneDoeNickname ==
  [real_name |-> <<"Ann", "Lee">>, real_name_normalized |-> <<"Ann", "Lee">>,
   display_name_normalized |-> <<"jane", "doe">>, first_name |-> "Ann", last_name |-> "Lee"]
JaneSmith ==
  [real_name |-> <<"Jane", "Smith">>, real_name_normalized |-> <<"Jane", "Smith">>,
   display_name_normalized |-> NoName, first_name |-> "Jane", last_name |-> "Smith"]
BobDoe ==
  [real_name |-> <<"Bob", "Doe">>, real_name_normalized |-> <<"Bob", "Doe">>,
   display_name_normalized |-> <<"bob">>, first_name |-> "Bob", last_name |-> "Doe"]

\* the profile the platform gives its built-in system account
Slackbot ==
  [real_name |-> <<"Slackbot">>, real_name_normalized |-> <<"Slackbot">>,
   display_name_normalized |-> <<"Slackbot">>, first_name |-> "slackbot", last_name |-> None]

Profiles == {JaneDoe, JaneDoeNormalized, JaneDoeNickname, JaneSmith, BobDoe}

\* the names given to /set-birthday-auto
Queries == {<<"jane", "doe">>, <<"Jane", "Roe">>, <<"Slackbot", "Roe">>}

\* the birth date given to /set-birthday-auto
AutoDates == {<<25, 12>>}

\* response.members of page p, with the fields findUserByName reads
ListedMembers(p) ==
  {[id |-> u, deleted |-> directory[u].status = "deleted", profile |-> directory[u].profile] :
     u \in {v \in DOMAIN directory : directory[v].page = p}}

IndexOf(u) == CHOOSE i \in 1..Len(MemberOrder) : MemberOrder[i] = u

\* Array.prototype.find: the first member of the page that matches
FirstOf(ms) == CHOOSE m \in ms : \A n \in ms : IndexOf(m.id) <= IndexOf(n.id)

\* commands.js:43-100: the match stages, applied to the members of one page
MatchOnPage(memberList, firstName, lastName) ==
  LET full == FullName(firstName, lastName)
      active == {m \in memberList : ~m.deleted}
      byRealName == {m \in active : m.profile.real_name # NoName
                                      /\ LowerName(m.profile.real_name) = full}
      byNormalized == {m \in active : m.profile.real_name_normalized # NoName
                                        /\ LowerName(m.profile.real_name_normalized) = full}
      byDisplayName == {m \in active : m.profile.display_name_normalized # NoName
                                         /\ LowerName(m.profile.display_name_normalized) = full}
      firstNameMatches == {m \in active : m.profile.first_name # None
                                            /\ ToLowerCase(m.profile.first_name) = ToLowerCase(firstName)}
      lastNameMatches == {m \in active : m.profile.last_name # None
                                           /\ ToLowerCase(m.profile.last_name) = ToLowerCase(lastName)}
  IN  IF byRealName # {} THEN FirstOf(byRealName).id
      ELSE IF byNormalized # {} THEN FirstOf(byNormalized).id
      ELSE IF byDisplayName # {} THEN FirstOf(byDisplayName).id
      ELSE IF Cardinality(firstNameMatches) = 1 THEN FirstOf(firstNameMatches).id
      ELSE IF Cardinality(lastNameMatches) = 1 THEN FirstOf(lastNameMatches).id
      ELSE None

\* cacheKey
CacheKey(firstName, lastName) == <<ToLowerCase(firstName), ToLowerCase(lastName)>>

\* the time to live of a cache entry, in minutes (5 * 60 * 1000 ms)
CACHE_DURATION == 5

\* userCache.set(cacheKey, { user, timestamp: Date.now() })
CacheSet(cache, key, user) ==
  {e \in cache : e.key # key} \cup {[key |-> key, user |-> user, timestamp |-> now]}

\* cached && Date.now() - cached.timestamp < CACHE_DURATION
FreshEntries(key) ==
  {e \in userCache : e.key = key /\ now - e.timestamp < CACHE_DURATION}

\* /set-birthday-auto with well-formed text calls findUserByName.  A fresh
\* cache entry is returned; reading real_name of a cached null raises
\* (commands.js:23)
Called(firstName, lastName) ==
  LET hit == FreshEntries(CacheKey(firstName, lastName))
      call == [IdleSearch EXCEPT !.firstName = firstName, !.lastName = lastName,
                                 !.hit = hit]
  IN  IF hit # {}
        THEN LET e == CHOOSE x \in hit : TRUE
             IN  IF e.user = None
                   THEN [call EXCEPT !.pc = "done", !.raised = TRUE]
                   ELSE [call EXCEPT !.pc = "done", !.user = e.user]
        ELSE [call EXCEPT !.pc = "list", !.cursor = 1, !.searchAttempts = 1]

FindStart(firstName, lastName) ==
  /\ search.pc = "idle"
  /\ search' = Called(firstName, lastName)
  /\ UNCHANGED <<env, store, procs, posted, probe, userCache, now, see, ending>>

\* users.list raises: rethrown at commands.js:114
FindPageFail ==
  /\ search.pc = "list"
  /\ search' = [search EXCEPT !.pc = "done", !.raised = TRUE]
  /\ UNCHANGED <<env, store, procs, posted, probe, userCache, now, see, ending>>

\* a page arrives: a match ends the search and is cached; without one the
\* loop goes on to the next page or ends with the negative result cached
FindPage ==
  /\ search.pc = "list"
  /\ LET user == MatchOnPage(ListedMembers(search.cursor), search.firstName, search.lastName)
         cursor == NextCursor(search.cursor)
         key == CacheKey(search.firstName, search.lastName)
         got == [search EXCEPT !.fetched = @ + 1]
     IN  IF user # None
           THEN /\ search' = [got EXCEPT !.pc = "done", !.user = user]
                /\ userCache' = CacheSet(userCache, key, user)
           ELSE IF LoopGoesOn(search.searchAttempts, cursor)
             THEN /\ search' = [got EXCEPT !.cursor = cursor, !.searchAttempts = @ + 1]
                  /\ UNCHANGED userCache
             ELSE /\ search' = [got EXCEPT !.pc = "done"]
                  /\ userCache' = CacheSet(userCache, key, None)
  /\ UNCHANGED <<env, store, procs, posted, probe, now, see, ending>>

\* a minute passes between two commands
Tick ==
  /\ now < MaxClock
  /\ search.pc = "idle"
  /\ now' = now + 1
  /\ UNCHANGED <<env, store, procs, posted, probe, userCache, search, see, ending>>

\* what /set-birthday-auto says
AutoSet == "FirstName's birthday set for ..."
AutoNotFound == "Could not find user: ..."
AutoErrorFinding == "Error finding user: ..."
AutoError == "Sorry, there was an error setting the birthday. Please try the manual command ..."

\* the errors /set-birthday and /set-birthday-auto catch
UserNotFound == "User not found"
SearchFailed == "findUserByName raised"
SayFailed == "say failed"
AckFailed == "ack failed"

\* outer catch (commands.js:286-300): say, with no catch around it
AutoOuterCatch == <<AutoError>>

\* inner catch (commands.js:263-284) for an error other than "User not
\* found": say, inside the outer try
AutoInnerCatch == <<AutoErrorFinding>> \o AutoOuterCatch

\* findUserByName returned or threw: /set-birthday-auto stores the birthday of
\* the member found (commands.js:239-244) or says that it failed
AutoReturn(birthDate) ==
  /\ search.pc = "done"
  /\ birthdays' = IF ~search.raised /\ search.user # None
                    THEN InsertBirthday(birthdays, search.user, birthDate)
                    ELSE birthdays
  /\ search' = IdleSearch
  /\ \E failing \in FailingPosts :
       LET found == ~search.raised /\ search.user # None
           chain == IF found THEN <<AutoSet>> \o AutoInnerCatch
                    ELSE IF search.raised THEN AutoInnerCatch
                    ELSE <<AutoNotFound>> \o AutoOuterCatch
           error == IF search.raised THEN SearchFailed
                    ELSE IF search.user = None THEN UserNotFound
                    ELSE IF failing > 0 THEN SayFailed ELSE None
       IN  ending' = Ended("set-birthday-auto", search.text, error, Delivered(chain, failing),
                           Escapes(chain, failing), IF found THEN 1 ELSE 0)
  /\ UNCHANGED <<env, messages, descriptions, nextId, procs, posted, probe, userCache, now, see>>

(***************************************************************************)
(* /see-birthdays (commands.js:304-409)                                    *)
(***************************************************************************)
\* no birthday stored: the command says so and returns
SeeNone ==
  /\ see.pc = "idle"
  /\ birthdays = <<>>
  /\ UNCHANGED vars

SeeStart ==
  /\ see.pc = "idle"
  /\ birthdays # <<>>
  /\ see' = [IdleSee EXCEPT !.pc = "list", !.cursor = 1, !.searchAttempts = 1]
  /\ UNCHANGED <<env, store, procs, posted, probe, userCache, now, search, ending>>

\* users.list raises: rethrown at commands.js:341, the command says so
SeePageFail ==
  /\ see.pc = "list"
  /\ see' = [see EXCEPT !.pc = "done", !.raised = TRUE]
  /\ UNCHANGED <<env, store, procs, posted, probe, userCache, now, search, ending>>

\* a page arrives and is added to allUsers
SeePage ==
  /\ see.pc = "list"
  /\ LET cursor == NextCursor(see.cursor)
         got == [see EXCEPT !.fetched = @ + 1,
                            !.allUsers = @ \cup {m.id : m \in PageMembers(see.cursor)}]
     IN  see' = IF LoopGoesOn(see.searchAttempts, cursor)
                  THEN [got EXCEPT !.cursor = cursor, !.searchAttempts = @ + 1]
                  ELSE [got EXCEPT !.pc = "done"]
  /\ UNCHANGED <<env, store, procs, posted, probe, userCache, now, search, ending>>

\* the list of birthdays, or the error, is said
SeeReturn ==
  /\ see.pc = "done"
  /\ see' = IdleSee
  /\ UNCHANGED <<env, store, procs, posted, probe, userCache, now, search, ending>>

(***************************************************************************)
(* Daily Scheduler: cleanupDeactivatedUsers and the cron callback          *)
(* (birthday-cron.js)                                                      *)
(***************************************************************************)
\* the 09:00 trigger fires: cleanup reads the birthdays and asks for page 1
CronStart ==
  /\ cron.pc = "idle"
  /\ ~ranToday
  /\ ranToday' = TRUE
  /\ cron' = [IdleCron EXCEPT !.pc = "cl_fetch", !.births = birthdays,
                              !.attempts = 1, !.page = 1]
  /\ UNCHANGED <<today, directory, setsRun, cmdsRun, store, trigger, poster, cmd, sub, posted, probe, lookup>>

\* a cleanup that overlooks the deleted flag
IsStale_AbsentOnly(allUsers, u) ==
  ~\E m \in allUsers : m.id = u

\* birthday-cron.js:46-49
IsStale(allUsers, u) ==
  \/ ~\E m \in allUsers : m.id = u
  \/ \E m \in allUsers : m.id = u /\ m.deleted

StaleUsers(births, allUsers) ==
  {births[i].user_id : i \in {j \in 1..Len(births) : IsStale(allUsers, births[j].user_id)}}

RECURSIVE DeleteRowsForUsers(_, _)
DeleteRowsForUsers(tbl, us) ==
  IF us = {} THEN tbl
  ELSE LET u == CHOOSE v \in us : TRUE
       IN  DeleteRowsForUsers(DeleteRowsForUser(tbl, u), us \ {u})

RECURSIVE DeleteUsers(_, _)
DeleteUsers(bs, us) ==
  IF us = {} THEN bs
  ELSE LET u == CHOOSE v \in us : TRUE
       IN  DeleteUsers(DeleteUser(bs, u), us \ {u})

\* the dispatch phase starts: birthday-cron.js:80
DispatchSnapshot(cr, bs) ==
  [cr EXCEPT !.pc = "dispatch", !.list = bs, !.i = 1,
             !.births = <<>>, !.allUsers = {}, !.attempts = 0, !.page = 0,
             !.log = [j \in 1..Len(bs) |-> [act |-> "none", count |-> 0]]]

\* a page arrives and the loop goes on to the next page
CleanupNextPage ==
  /\ cron.pc = "cl_fetch"
  /\ LoopGoesOn(cron.attempts, NextCursor(cron.page))
  /\ cron' = [cron EXCEPT !.allUsers = @ \cup PageMembers(cron.page),
                          !.attempts = @ + 1,
                          !.page = NextCursor(cron.page)]
  /\ UNCHANGED <<env, store, trigger, poster, cmd, sub, posted, probe, lookup>>

\* the last page fetched arrives (no cursor, or the cap is reached): the stale
\* birthdays are deleted with their rows (birthday-cron.js:45-55)
CleanupDelete ==
  /\ cron.pc = "cl_fetch"
  /\ ~LoopGoesOn(cron.attempts, NextCursor(cron.page))
  /\ LET allUsers == cron.allUsers \cup PageMembers(cron.page)
         stale == StaleUsers(cron.births, allUsers)
         bs == DeleteUsers(birthdays, stale)
     IN  /\ messages' = DeleteRowsForUsers(messages, stale)
         /\ descriptions' = DeleteRowsForUsers(descriptions, stale)
         /\ birthdays' = bs
         /\ cron' = IF stale # {}
                      THEN [cron EXCEPT !.births = <<>>, !.allUsers = {}, !.attempts = 0,
                                        !.page = 0, !.pc = "cl_summary"]
                      ELSE DispatchSnapshot(cron, bs)
  /\ UNCHANGED <<env, nextId, trigger, poster, cmd, sub, posted, probe, lookup>>

\* users.list raises: rethrown at line 40, caught and logged at line 64; the
\* cron callback goes on with the dispatch phase
CleanupFetchFail ==
  /\ cron.pc = "cl_fetch"
  /\ cron' = DispatchSnapshot([cron EXCEPT !.cleanupFailed = TRUE], birthdays)
  /\ UNCHANGED <<env, store, trigger, poster, cmd, sub, posted, probe, lookup>>

\* the admin summary post returns or raises (caught at line 64)
CleanupSummary(ok) ==
  /\ cron.pc = "cl_summary"
  /\ cron' = DispatchSnapshot([cron EXCEPT !.cleanupFailed = ~ok], birthdays)
  /\ UNCHANGED <<env, store, trigger, poster, cmd, sub, posted, probe, lookup>>

\* a dispatch that sends the digest at any offset up to 1
DispatchChoice_DigestUpTo1(off) ==
  IF off = 7 THEN "collect"
  ELSE IF off <= 1 THEN "digest"
  ELSE IF off = 0 THEN "thread"
  ELSE "noop"

\* birthday-cron.js:100-115
DispatchChoice(off) ==
  IF off = 7 THEN "collect"
  ELSE IF off = 1 THEN "digest"
  ELSE IF off = 0 THEN "thread"
  ELSE "noop"

\* the offsets the scheduler can compute for a stored date today
Offsets(bd) ==
  {DiffDays(today, bd, s) :
     s \in {x \in DstShifts : BirthdayDate(today, bd) = TodaySerial(today) => x = 0}}

\* the dispatch loop is at a record for which it chooses act
AtRecord(act) ==
  /\ cron.pc = "dispatch"
  /\ cron.i <= Len(cron.list)
  /\ \E off \in Offsets(cron.list[cron.i].birth_date) : DispatchChoice(off) = act

Logged(act, count) == [cron EXCEPT !.log[cron.i] = [act |-> act, count |-> count]]

CronCollect ==
  /\ AtRecord("collect")
  /\ LET c == cron.list[cron.i].user_id
     IN  /\ birthdays' = EnsureRecord(birthdays, c)
         /\ trigger' = [trigger EXCEPT !["cron"] = StartedTrigger(c)]
  /\ cron' = [Logged("collect", 0) EXCEPT !.pc = "wait_trigger"]
  /\ UNCHANGED <<env, messages, descriptions, nextId, poster, cmd,
                 sub, posted, probe, lookup>>

CronDigest ==
  /\ AtRecord("digest")
  /\ cron' = [Logged("digest", MessageCount(messages, cron.list[cron.i].user_id))
                EXCEPT !.pc = "wait_digest"]
  /\ UNCHANGED <<env, store, trigger, poster, cmd, sub, posted, probe, lookup>>

CronThread ==
  /\ AtRecord("thread")
  /\ poster' = [poster EXCEPT !["cron"] = StartedPoster(cron.list[cron.i].user_id)]
  /\ cron' = [Logged("thread", 0) EXCEPT !.pc = "wait_thread"]
  /\ UNCHANGED <<env, store, trigger, cmd, sub, posted, probe, lookup>>

CronSkip ==
  /\ AtRecord("noop")
  /\ cron' = [Logged("noop", 0) EXCEPT !.i = @ + 1]
  /\ UNCHANGED <<env, store, trigger, poster, cmd, sub, posted, probe, lookup>>

CronTriggerReturn ==
  /\ cron.pc = "wait_trigger"
  /\ trigger["cron"].pc = "done"
  /\ trigger' = [trigger EXCEPT !["cron"] = IdleTrigger]
  /\ cron' = [cron EXCEPT !.pc = "dispatch", !.i = @ + 1]
  /\ UNCHANGED <<env, store, poster, cmd, sub, posted, probe, lookup>>

CronThreadReturn ==
  /\ cron.pc = "wait_thread"
  /\ poster["cron"].pc = "done"
  /\ poster' = [poster EXCEPT !["cron"] = IdlePoster]
  /\ cron' = [cron EXCEPT !.pc = "dispatch", !.i = @ + 1]
  /\ UNCHANGED <<env, store, trigger, cmd, sub, posted, probe, lookup>>

CronDigestPosted ==
  /\ cron.pc = "wait_digest"
  /\ cron' = [cron EXCEPT !.pc = "dispatch", !.i = @ + 1]
  /\ UNCHANGED <<env, store, trigger, poster, cmd, sub, posted, probe, lookup>>

\* the digest post raises: caught at birthday-cron.js:117, outside the loop
CronDigestFail ==
  /\ cron.pc = "wait_digest"
  /\ cron' = [cron EXCEPT !.pc = "end", !.raisedAt = cron.i]
  /\ UNCHANGED <<env, store, trigger, poster, cmd, sub, posted, probe, lookup>>

\* the loop is through
CronFinish ==
  /\ cron.pc = "dispatch"
  /\ cron.i > Len(cron.list)
  /\ cron' = [cron EXCEPT !.pc = "end"]
  /\ UNCHANGED <<env, store, trigger, poster, cmd, sub, posted, probe, lookup>>

\* the cron callback has returned
CronReturn ==
  /\ cron.pc = "end"
  /\ cron' = IdleCron
  /\ UNCHANGED <<env, store, trigger, poster, cmd, sub, posted, probe, lookup>>

(***************************************************************************)
(* The clock                                                               *)
(***************************************************************************)
NextDate(t) == CivilDate(TodaySerial(t) + 1)

AdvanceDay ==
  /\ ranToday
  /\ cron.pc = "idle"
  /\ TodaySerial(today) < TodaySerial(StartDate) + MaxDay
  /\ today' = NextDate(today)
  /\ ranToday' = FALSE
  /\ UNCHANGED <<directory, setsRun, cmdsRun, store, procs, posted, probe, lookup>>

(***************************************************************************)
(* The system                                                              *)
(***************************************************************************)
SetCommands == \E u \in Celebrants, date \in BirthDates : SetBirthday(u, date)

\* the form is submitted with a tribute of msgs, a description of descs, or both
SubmissionsOf(msgs, descs) ==
  \/ \E c \in Users, s \in Senders, m \in msgs \cup {None}, d \in descs \cup {None} :
       SubmitStart(c, s, m, d)
  \/ \E c \in Users, s \in Senders : SubmitUnknownCelebrant(c, s)
  \/ SubmitInfoFail
  \/ SubmitInsert

Submissions == SubmissionsOf(Texts, Texts)

TriggerSteps(k) ==
  \/ TriggerListFail(k)
  \/ TriggerListOk(k)
  \/ \E outcome \in BatchOutcomes : TriggerBatch(k, outcome)

PosterSteps(k) ==
  \/ PosterFail(k)
  \/ PosterAnnounced(k)
  \/ PosterPoemReady(k)
  \/ PosterPoemPosted(k)
  \/ PosterDescsPosted(k)
  \/ PosterMsgPosted(k)

ThreadCommand ==
  \/ \E u \in Celebrants : CmdPostThread(u)
  \/ CmdPostThreadReturn
  \/ CmdSaid

CollectCommand ==
  \/ \E u \in Celebrants : CmdCollect(u)
  \/ CmdCollectReturn
  \/ CmdSaid

Scheduler ==
  \/ CronStart
  \/ CleanupNextPage
  \/ CleanupDelete
  \/ CleanupFetchFail
  \/ \E ok \in BOOLEAN : CleanupSummary(ok)
  \/ CronCollect
  \/ CronDigest
  \/ CronThread
  \/ CronSkip
  \/ CronTriggerReturn
  \/ CronThreadReturn
  \/ CronDigestPosted
  \/ CronDigestFail
  \/ CronFinish
  \/ CronReturn
  \/ TriggerSteps("cron")
  \/ PosterSteps("cron")

\* /set-birthday-auto for one of the names qs
SetBirthdayAuto(qs) ==
  \/ \E q \in qs : FindStart(q[1], q[2])
  \/ FindPageFail
  \/ FindPage
  \/ \E birthDate \in AutoDates : AutoReturn(birthDate)

SeeBirthdays ==
  \/ SeeNone
  \/ SeeStart
  \/ SeePageFail
  \/ SeePage
  \/ SeeReturn

\* the scheduler, with the submissions that arrive meanwhile
NextSched ==
  \/ Submissions
  \/ Scheduler

SpecSched == InitSched /\ [][NextSched]_vars

\* the whole bot on one day
Next ==
  \/ SetCommands
  \/ Submissions
  \/ Scheduler
  \/ ThreadCommand
  \/ PosterSteps("cmd")
  \/ CollectCommand
  \/ TriggerSteps("cmd")

Spec == Init /\ [][Next]_vars

\* the bot left to its users over several days: birthdays are set, forms are
\* submitted, the scheduler runs every morning
NextDays ==
  \/ SetCommands
  \/ Submissions
  \/ Scheduler
  \/ AdvanceDay

SpecDays == Init /\ [][NextDays]_vars

\* /collect-birthday-messages for U1, with or without a birthday record, on
\* a platform with guests, a bot and the system account
InitTrigger ==
  /\ today = StartDate
  /\ directory \in TriggerDirectories
  /\ probe = NoProbe
  /\ birthdays \in {<<>>, <<[user_id |-> "U1", birth_date |-> <<8, 6>>]>>}
  /\ InitProcs

NextTrigger ==
  \/ CollectCommand
  \/ TriggerSteps("cmd")

SpecTrigger == InitTrigger /\ [][NextTrigger]_vars

\* name resolution: /set-birthday-auto on directories of two members with any
\* of the profiles, active or deactivated, on the first or the second page
ResolveDirectories ==
  {dir \in [Users \cup {SystemAccount} ->
              [status : Statuses, page : {1, 2}, kind : {"member", "system"},
               profile : Profiles \cup {Slackbot}]] :
     /\ dir[SystemAccount] = [status |-> "active", page |-> 1, kind |-> "system", profile |-> Slackbot]
     /\ \A u \in Users : dir[u].kind = "member" /\ dir[u].profile \in Profiles}

InitResolve ==
  /\ today = StartDate
  /\ directory \in ResolveDirectories
  /\ probe = NoProbe
  /\ birthdays = <<>>
  /\ InitProcs

NextResolve == SetBirthdayAuto(Queries)

SpecResolve == InitResolve /\ [][NextResolve]_vars

\* the resolver's cache: repeated /set-birthday-auto commands while time passes
CacheDirectories ==
  {dir \in ResolveDirectories : \A u \in Users : dir[u].profile \in {JaneDoe, BobDoe}}

CacheQueries == {<<"jane", "doe">>, <<"Jane", "Roe">>}

InitCache ==
  /\ today = StartDate
  /\ directory \in CacheDirectories
  /\ probe = NoProbe
  /\ birthdays = <<>>
  /\ InitProcs

NextCache ==
  \/ SetBirthdayAuto(CacheQueries)
  \/ Tick

SpecCache == InitCache /\ [][NextCache]_vars

\* the three listing loops (cleanup, /see-birthdays, findUserByName) on
\* directories of one page and of more pages than the loops fetch
ListingDirectories ==
  {dir \in [Users -> [status : Statuses, page : {1, FarPage}, kind : {"member"},
                      profile : {JaneDoe, BobDoe}]] :
     /\ dir["U1"].profile = JaneDoe
     /\ dir["U2"].profile = BobDoe
     /\ dir["U2"].status = "active"}

ListingQueries == {<<"Jane", "Roe">>}

InitListing ==
  /\ today = StartDate
  /\ directory \in ListingDirectories
  /\ probe = NoProbe
  /\ birthdays \in {<<>>} \cup {<<[user_id |-> "U1", birth_date |-> d]>> : d \in AutoDates}
  /\ InitProcs

NextListing ==
  \/ SetBirthdayAuto(ListingQueries)
  \/ SeeBirthdays
  \/ CronStart
  \/ CleanupNextPage
  \/ CleanupDelete
  \/ CleanupFetchFail
  \/ \E ok \in BOOLEAN : CleanupSummary(ok)
  \/ CronSkip
  \/ CronFinish
  \/ CronReturn

SpecListing == InitListing /\ [][NextListing]_vars

\* a birthday: U1's record is due today, the scheduler and the manual command
\* both run Thread Poster for U1 while colleagues still submit
InitThread ==
  /\ today = StartDate
  /\ directory = [u \in Users |-> [status |-> "active", page |-> 1, kind |-> "member"]]
  /\ probe = NoProbe
  /\ birthdays = <<[user_id |-> "U1", birth_date |-> <<StartDate.d, StartDate.m>>]>>
  /\ InitProcs

NextThread ==
  \/ SubmissionsOf(Texts \cup MoreTexts, Texts)
  \/ ThreadCommand
  \/ PosterSteps("cmd")
  \/ CronStart
  \/ CleanupDelete
  \/ CleanupFetchFail
  \/ CronThread
  \/ CronThreadReturn
  \/ CronFinish
  \/ CronReturn
  \/ PosterSteps("cron")

SpecThread == InitThread /\ [][NextThread]_vars

(***************************************************************************)
(* Offset computation on its own: every current date, every stored date.   *)
(***************************************************************************)
InitOffset ==
  /\ today \in AllDays
  /\ directory = [u \in Users |-> [status |-> "active", page |-> 1, kind |-> "member"]]
  /\ probe = NoProbe
  /\ birthdays = <<>>
  /\ InitProcs

ComputeOffset ==
  /\ ~probe.done
  /\ \E bd \in ValidDates \cup {Placeholder}, s \in DstShifts :
       /\ (BirthdayDate(today, bd) = TodaySerial(today)) => s = 0
       /\ probe' = [birth |-> bd, offset |-> DiffDays(today, bd, s), done |-> TRUE]
  /\ UNCHANGED <<env, store, procs, posted, lookup>>

NextOffset == ComputeOffset

SpecOffset == InitOffset /\ [][NextOffset]_vars

\* Reference: the day number of the next real occurrence of day-month bd on or
\* after date t (a year in which that day-month exists).
RECURSIVE NextOccurrenceFrom(_, _, _)
NextOccurrenceFrom(t, bd, y) ==
  IF bd[1] <= DaysInMonth(y, bd[2]) /\ DateSerial(y, bd[2], bd[1]) >= TodaySerial(t)
    THEN DateSerial(y, bd[2], bd[1])
    ELSE NextOccurrenceFrom(t, bd, y + 1)

NextOccurrence(t, bd) == NextOccurrenceFrom(t, bd, t.y)

IsBirthdayToday(t, bd) == t.d = bd[1] /\ t.m = bd[2]

\* C2: for every valid stored date and every current date the offset is the
\* whole number of days to the next occurrence of that day-month: never
\* negative, and 0 exactly when today is the birthday.
C2_OffsetIsDaysToNextOccurrence ==
  (probe.done /\ probe.birth \in ValidDates) =>
     /\ probe.offset >= 0
     /\ (probe.offset = 0) <=> IsBirthdayToday(today, probe.birth)
     /\ probe.offset = NextOccurrence(today, probe.birth) - TodaySerial(today)

(***************************************************************************)
(* The scheduler run (SpecSched)                                           *)
(***************************************************************************)
\* the action the claim's table gives an offset
ActionAt(off) ==
  CASE off = 7 -> "collect"
    [] off = 1 -> "digest"
    [] off = 0 -> "thread"
    [] OTHER -> "noop"

\* the actions the table allows for stored date bd today
ActionsFor(bd) == {ActionAt(DiffDays(today, bd, s)) : s \in DstShifts}

RowsOf(tbl, c) == {i \in 1..Len(tbl) : tbl[i].celebrant_id = c}

PendingRowsOf(tbl, c) == {i \in RowsOf(tbl, c) : ~tbl[i].sent}

\* steps of the scheduler run that start an action for the record at hand
StartsTrigger == trigger["cron"].pc = "idle" /\ trigger'["cron"].pc # "idle"
StartsPoster == poster["cron"].pc = "idle" /\ poster'["cron"].pc # "idle"
PostsDigest == cron.pc # "wait_digest" /\ cron'.pc = "wait_digest"
PassesRecord == cron.pc = "dispatch" /\ cron'.pc = "dispatch" /\ cron'.i = cron.i + 1

C1_Step ==
  LET rec == cron.list[cron.i]
      at == cron.pc = "dispatch" /\ cron.i \in 1..Len(cron.list)
            /\ cron.log[cron.i].act = "none"
  IN  /\ StartsTrigger =>
            /\ at /\ "collect" \in ActionsFor(rec.birth_date)
            /\ trigger'["cron"].c = rec.user_id
            /\ ~StartsPoster /\ ~PostsDigest
            /\ cron'.log[cron.i].act = "collect" /\ cron'.i = cron.i
      /\ StartsPoster =>
            /\ at /\ "thread" \in ActionsFor(rec.birth_date)
            /\ poster'["cron"].c = rec.user_id
            /\ ~StartsTrigger /\ ~PostsDigest
            /\ cron'.log[cron.i].act = "thread" /\ cron'.i = cron.i
      /\ PostsDigest =>
            /\ at /\ "digest" \in ActionsFor(rec.birth_date)
            /\ ~StartsTrigger /\ ~StartsPoster
            /\ cron'.log[cron.i] =
                 [act |-> "digest",
                  count |-> Cardinality(PendingRowsOf(messages, rec.user_id))]
            /\ cron'.i = cron.i
      /\ PassesRecord =>
            /\ "noop" \in ActionsFor(rec.birth_date)
            /\ UNCHANGED <<store, trigger, poster>>

\* C1: in one scheduler run each birthday record causes at most one action,
\* chosen by its offset alone: 7 starts Collection Trigger for the member, 1
\* posts one admin digest with the member's current count of undelivered
\* tribute rows, 0 starts Thread Poster for the member; at any other offset
\* the run passes the record with no outbound call and no store write.
C1_OneActionByOffset ==
  /\ [](\A j \in 1..Len(cron.log) :
          cron.log[j].act # "none" => cron.log[j].act \in ActionsFor(cron.list[j].birth_date))
  /\ [][C1_Step]_vars

\* a run that has sent a digest counting one tribute for its first record and
\* started Thread Poster for its second
C1_Witness ==
  /\ cron.pc = "end" /\ Len(cron.list) = 2
  /\ cron.log[1] = [act |-> "digest", count |-> 1]
  /\ cron.log[2].act = "thread"

\* C3: if the dispatch of one record raises, every later record of the run is
\* still dispatched according to its own offset.
C3_LaterRecordsDispatched ==
  (cron.pc = "end" /\ cron.raisedAt > 0 /\ ~cron.cleanupFailed) =>
     \A j \in (cron.raisedAt + 1)..Len(cron.list) :
        cron.log[j].act \in ActionsFor(cron.list[j].birth_date)

\* C4: a scheduler run whose cleanup phase failed starts no Collection
\* Trigger, posts no admin digest and starts no Thread Poster.
C4_FailedCleanupAbortsRun ==
  cron.cleanupFailed =>
     /\ \A j \in 1..Len(cron.log) : cron.log[j].act \notin {"collect", "digest", "thread"}
     /\ trigger["cron"].pc = "idle"
     /\ poster["cron"].pc = "idle"
     /\ cron.pc # "wait_digest"

\* the members the cleanup of today's run is given: the pages it fetches
FetchedPages == 1..(IF NumPages < MaxSearchAttempts THEN NumPages ELSE MaxSearchAttempts)

FetchedMembers == {u \in DOMAIN directory : directory[u].page \in FetchedPages}

\* absent from the fetched membership, or marked deleted in it
Departed(u) == u \notin FetchedMembers \/ directory[u].status = "deleted"

\* the step with which the cleanup phase gets through its delete loop
CleanupCompletes ==
  cron.pc = "cl_fetch" /\ cron'.pc \in {"cl_summary", "dispatch"} /\ ~cron'.cleanupFailed

NoTraceOf(bs, ms, ds, u) ==
  /\ ~HasRecord(bs, u)
  /\ RowsOf(ms, u) = {}
  /\ RowsOf(ds, u) = {}

C7_RowsNameStoredCelebrants ==
  /\ \A i \in 1..Len(messages) : \E j \in 1..Len(birthdays) :
        birthdays[j].user_id = messages[i].celebrant_id
  /\ \A i \in 1..Len(descriptions) : \E j \in 1..Len(birthdays) :
        birthdays[j].user_id = descriptions[i].celebrant_id

\* a submission is under way for a celebrant whose record, and the tribute
\* stored for it, the cleanup has removed meanwhile
C7_Witness ==
  /\ sub.pc = "info" /\ sub.msg # None
  /\ \A j \in 1..Len(birthdays) : birthdays[j].user_id # sub.c
  /\ nextId.msg > 1 /\ messages = <<>>
  /\ cron.pc \in {"cl_summary", "dispatch"}

SameSubmission(r, q) ==
  /\ r.celebrant_id = q.celebrant_id /\ r.sender_id = q.sender_id
  /\ r.message = q.message

AtMostOnePerDay(tbl) ==
  \A i, j \in 1..Len(tbl) :
     (SameSubmission(tbl[i], tbl[j]) /\ tbl[i].created = tbl[j].created) => i = j

\* the rows of tbl that hold text m of sender s for celebrant c, stored today
StoredToday(tbl, c, s, m) ==
  {i \in 1..Len(tbl) : /\ tbl[i].celebrant_id = c /\ tbl[i].sender_id = s
                        /\ tbl[i].message = m
                        /\ tbl[i].created = TodaySerial(today)}

\* what a handled submission of text m does to table tbl
AddsOnePerDay(tbl, tblNext, m) ==
  (m # None /\ HasRecord(birthdays, sub.c)) =>
     IF StoredToday(tbl, sub.c, sub.s, m) # {}
       THEN tblNext = tbl
       ELSE /\ Len(tblNext) = Len(tbl) + 1
            /\ SubSeq(tblNext, 1, Len(tbl)) = tbl
            /\ StoredToday(tblNext, sub.c, sub.s, m) = {Len(tblNext)}

\* C8: the store holds at most one tribute row per (celebrant, sender, text,
\* day of insertion): an identical submission on the same day adds no row,
\* on another day it adds a second row; the same for description rows.
C8_OneRowPerDay ==
  /\ [](AtMostOnePerDay(messages) /\ AtMostOnePerDay(descriptions))
  /\ [][SubmitInsert => /\ AddsOnePerDay(messages, messages', sub.msg)
                         /\ AddsOnePerDay(descriptions, descriptions', sub.desc)]_vars

\* the same tribute and the same description stored on two days
C8_Witness ==
  /\ Len(messages) = 2 /\ SameSubmission(messages[1], messages[2])
  /\ messages[1].created # messages[2].created
  /\ Len(descriptions) = 2 /\ SameSubmission(descriptions[1], descriptions[2])
  /\ descriptions[1].created # descriptions[2].created

(***************************************************************************)
(* Thread Poster (Spec)                                                    *)
(***************************************************************************)
\* the rows with an id of ids that tbl still holds are delivered and posted
DeliveredAndPosted(tbl, ids, count) ==
  \A i \in 1..Len(tbl) :
     tbl[i].id \in ids => (tbl[i].sent /\ count[tbl[i].id] >= 1)

\* C9: when a Thread Poster invocation returns and all its posts succeeded,
\* every tribute and description row of the celebrant that was undelivered
\* when it started is marked delivered and was posted.
C9_PendingRowsDeliveredAndPosted ==
  \A k \in Callers :
     (poster[k].pc = "done" /\ ~poster[k].failed) =>
        /\ DeliveredAndPosted(messages, poster[k].startMsgs, posted.msg)
        /\ DeliveredAndPosted(descriptions, poster[k].startDescs, posted.desc)

\* an invocation that started with every row of its celebrant delivered, at
\* least one, and during which no row was stored for the celebrant
IsRerun(pr) ==
  /\ pr.pc # "idle"
  /\ pr.startMsgs = {} /\ pr.startDescs = {}
  /\ \A i \in RowsOf(messages, pr.c) : messages[i].id < pr.startNext.msg
  /\ \A i \in RowsOf(descriptions, pr.c) : descriptions[i].id < pr.startNext.desc
  /\ RowsOf(messages, pr.c) \cup RowsOf(descriptions, pr.c) # {}

\* C10 as stated: a Thread Poster invocation for a celebrant whose rows are
\* all delivered sends no message of any kind to the celebration channel.
C10_RerunPostsNothing ==
  \A k \in Callers : IsRerun(poster[k]) => poster[k].thread = <<>>

\* C10 as amended: such an invocation posts the announcement and nothing
\* else: no poem, no description aggregate, no tribute reply.
C10_RerunPostsOnlyAnnouncement ==
  \A k \in Callers :
     IsRerun(poster[k]) =>
        /\ Len(poster[k].thread) <= 1
        /\ \A n \in 1..Len(poster[k].thread) : poster[k].thread[n].kind = "announce"
        /\ poster[k].pc = "done" => Len(poster[k].thread) = 1 \/ poster[k].failed

\* the manual command has re-run Thread Poster after a delivery: it returned
\* having posted the announcement alone
C10_Witness ==
  /\ IsRerun(poster["cmd"])
  /\ poster["cmd"].pc = "done" /\ ~poster["cmd"].failed
  /\ poster["cmd"].thread = <<Post("announce", {})>>
  /\ \E i \in RowsOf(messages, poster["cmd"].c) : posted.msg[messages[i].id] >= 1
(***************************************************************************)
(* C11  A Thread Poster invocation in which a post failed is told apart    *)
(* from a successful one by its caller: the /post-birthday-thread handler  *)
(* that takes its call back after a failed post replies with the error     *)
(* text, not with "posted".                                                *)
(***************************************************************************)
C11_FailedPostReachesCaller ==
  [][(/\ cmd.pc = "wait_thread"
      /\ cmd'.pc = "say"
      /\ poster["cmd"].failed) => cmd'.said = "error"]_vars

(***************************************************************************)
(* C12  At-most-once delivery: whatever Thread Poster invocations have run *)
(* for a celebrant (aborted on a failed post, or overlapping at their      *)
(* suspension points), no tribute row has been posted to the celebration   *)
(* channel more than once.                                                 *)
(***************************************************************************)
C12_TributePostedAtMostOnce ==
  \A i \in 1..Len(messages) : posted.msg[messages[i].id] <= 1

(***************************************************************************)
(* C13  Within one Thread Poster invocation the posts are ordered: the     *)
(* announcement is the first post and the root of all later ones; with an  *)
(* undelivered description the poem is the first reply and exactly one     *)
(* description aggregate the second, and the description rows are flagged  *)
(* only by the step that has posted both; the tribute replies follow, one  *)
(* per undelivered tribute row in ascending creation order.  Without an    *)
(* undelivered description no poem is generated or posted.                 *)
(***************************************************************************)
TributeId(p) == CHOOSE id \in p.ids : TRUE

\* the order of the posts an invocation has made so far
ThreadOrdered(pr) ==
  LET th == pr.thread
      n == Len(th)
      hasDescs == pr.descs # <<>>
  IN  /\ \A i \in 1..n : (th[i].kind = "announce") <=> (i = 1)
      /\ \A i \in 1..n : th[i].kind = "poem" => i = 2 /\ hasDescs
      /\ \A i \in 1..n : th[i].kind = "descs" =>
            /\ i = 3
            /\ th[2].kind = "poem"
            /\ th[3].ids = IdsOf(pr.descs)
      /\ \A i \in 1..n : th[i].kind = "tribute" =>
            /\ i > (IF hasDescs THEN 3 ELSE 1)
            /\ LET j == i - (IF hasDescs THEN 3 ELSE 1)
               IN  j <= Len(pr.msgs) /\ th[i].ids = {pr.msgs[j].id}
      /\ \A i, j \in 1..n :
            (i < j /\ th[i].kind = "tribute" /\ th[j].kind = "tribute")
              => TributeId(th[i]) < TributeId(th[j])

\* an invocation that reads its rows reads exactly the celebrant's undelivered
\* ones, oldest first
ReadsPending(k) ==
  /\ (poster[k].pc = "announce" /\ poster'[k].pc = "poem")
       => /\ IdsOf(poster'[k].descs) = PendingIds(descriptions, poster[k].c)
          /\ poster'[k].descs # <<>>
  /\ (poster[k].pc = "announce" /\ poster'[k].pc \in {"postMsg", "done"} /\ ~poster'[k].failed)
       => PendingIds(descriptions, poster[k].c) = {}
  /\ (poster[k].pc \in {"announce", "postDescs"} /\ poster'[k].pc \in {"postMsg", "done"}
        /\ ~poster'[k].failed)
       => LET ms == poster'[k].msgs
          IN  /\ IdsOf(ms) = PendingIds(messages, poster[k].c)
              /\ \A i, j \in 1..Len(ms) : i < j => ms[i].id < ms[j].id

\* an invocation that ends without a failed post has posted one reply for
\* every tribute row it read
PostsEveryTribute(k) ==
  (poster[k].pc # "done" /\ poster'[k].pc = "done" /\ ~poster'[k].failed)
    => LET pr == poster'[k]
       IN  Len(pr.thread) = (IF pr.descs # <<>> THEN 3 ELSE 1) + Len(pr.msgs)

\* a description row is flagged only by the step that posts the aggregate
\* after the poem
FlagsAfterBoth ==
  (/\ Len(descriptions') = Len(descriptions)
   /\ \E i \in 1..Len(descriptions) : ~descriptions[i].sent /\ descriptions'[i].sent)
    => \E k \in Callers :
         /\ Len(poster[k].thread) = 2
         /\ Len(poster'[k].thread) = 3
         /\ poster'[k].thread[2].kind = "poem"
         /\ poster'[k].thread[3].kind = "descs"

C13_PostsOrdered ==
  /\ [](\A k \in Callers : ThreadOrdered(poster[k]))
  /\ [][/\ \A k \in Callers : ReadsPending(k) /\ PostsEveryTribute(k)
        /\ FlagsAfterBoth]_vars

\* an invocation has posted announcement, poem, aggregate and two tributes
C13_Witness ==
  \E k \in Callers :
    /\ poster[k].pc = "done"
    /\ ~poster[k].failed
    /\ Len(poster[k].thread) = 5
    /\ poster[k].thread[2].kind = "poem"
    /\ poster[k].thread[5].kind = "tribute"

(***************************************************************************)
(* C14  The step that starts Collection Trigger for a celebrant leaves a   *)
(* birthday record for the celebrant: a placeholder record appended if     *)
(* there was none, the birthdays table untouched if there was one.  A      *)
(* user gets a birthday record only in a set-birthday command or in the    *)
(* start of Collection Trigger.                                            *)
(***************************************************************************)
TriggerStartsFor(k, c) ==
  trigger[k].pc = "idle" /\ trigger'[k].pc = "list" /\ trigger'[k].c = c

CreatesRecord == \E u \in Users : ~HasRecord(birthdays, u) /\ HasRecord(birthdays', u)

C14_Step ==
  /\ \A k \in Callers, c \in Users :
        TriggerStartsFor(k, c) =>
          /\ HasRecord(birthdays', c)
          /\ birthdays' = IF HasRecord(birthdays, c)
                            THEN birthdays
                            ELSE Append(birthdays, [user_id |-> c, birth_date |-> Placeholder])
  /\ CreatesRecord =>
        \/ setsRun' = setsRun + 1
        \/ \E k \in Callers, c \in Users : TriggerStartsFor(k, c) /\ ~HasRecord(birthdays, c)

C14_TriggerEnsuresRecord == [][C14_Step]_vars

\* Collection Trigger runs for a celebrant it has given the placeholder record
C14_Witness ==
  /\ trigger["cmd"].pc = "send"
  /\ \E i \in 1..Len(birthdays) :
        birthdays[i] = [user_id |-> trigger["cmd"].c, birth_date |-> Placeholder]

(***************************************************************************)
(* C15  Collection Trigger attempts a prompt for every eligible colleague  *)
(* of the platform's full membership (not a bot, not deactivated, not      *)
(* restricted, not the celebrant, not the system account), on whatever     *)
(* page of the directory listing the colleague is.                         *)
(***************************************************************************)
EligibleColleague(u, c) ==
  /\ directory[u].kind = "member"
  /\ directory[u].status = "active"
  /\ u # c
  /\ u # SystemAccount

TriedIds(tr) == {tr.tried[i].id : i \in 1..Len(tr.tried)}

C15_AllEligibleAttempted ==
  \A k \in Callers :
    (trigger[k].pc = "done" /\ ~trigger[k].failed)
      => \A u \in DOMAIN directory :
           EligibleColleague(u, trigger[k].c) => u \in TriedIds(trigger[k])

(***************************************************************************)
(* C16  In Collection Trigger a failure to open the DM or to send the      *)
(* prompt for one member does not keep any other member from being asked:  *)
(* the members asked and the members still queued are together the         *)
(* eligible members of the fetched listing, each once; the prompts sent    *)
(* are one for each member whose open and send succeeded; the operation    *)
(* is over when the last batch is.                                         *)
(***************************************************************************)
FetchedEligible(c) ==
  SelectSeq(MemberOrder,
            LAMBDA u : u \in DOMAIN directory /\ directory[u].page = 1
                       /\ EligibleColleague(u, c))

C16_FailuresIsolated ==
  \A k \in Callers :
    LET tr == trigger[k]
        asked == [i \in 1..Len(tr.tried) |-> tr.tried[i].id]
        succeeded == SelectSeq(tr.tried, LAMBDA t : t.sent)
    IN  (tr.pc \in {"send", "done"} /\ ~tr.failed)
          => /\ asked \o tr.queue = FetchedEligible(tr.c)
             /\ tr.prompted = [i \in 1..Len(succeeded) |-> succeeded[i].id]
             /\ (tr.pc = "done") <=> (tr.queue = <<>>)

\* the first member's prompt failed, the second member has got one
C16_Witness ==
  LET tr == trigger["cmd"]
  IN  /\ tr.pc = "done"
      /\ Len(tr.tried) = 2
      /\ ~tr.tried[1].sent
      /\ tr.prompted = <<tr.tried[2].id>>

(***************************************************************************)
(* C17  Collection Trigger never sends a prompt to a bot, a deactivated    *)
(* account, a restricted account, the system account or the celebrant.     *)
(***************************************************************************)
C17_NeverPromptsExcluded ==
  \A k \in Callers :
    \A i \in 1..Len(trigger[k].prompted) :
      LET u == trigger[k].prompted[i]
      IN  /\ directory[u].kind \notin {"bot", "restricted", "ultra_restricted"}
          /\ directory[u].status # "deleted"
          /\ u # SystemAccount
          /\ u # trigger[k].c

\* a run over a page with the celebrant, a guest, a bot and the system
\* account has prompted the one colleague
C17_Witness ==
  /\ trigger["cmd"].pc = "done"
  /\ trigger["cmd"].prompted = <<"U2">>
  /\ directory["U3"] = [status |-> "active", page |-> 1, kind |-> "restricted"]
  /\ directory["B1"].page = 1

(***************************************************************************)
(* C19  resolveByName applies its match stages in priority order over the  *)
(* whole directory: when some active member, on whatever page, matches an  *)
(* exact-name stage (full name, normalized real name, normalized           *)
(* nickname), the member returned is one that matches an exact-name stage, *)
(* not one that matches only by first or by last name.                     *)
(***************************************************************************)
ActiveMembers == {u \in DOMAIN directory : directory[u].status = "active"}

\* the earliest exact-name stage member u matches for the name (4: none)
ExactStage(u, firstName, lastName) ==
  LET pf == directory[u].profile
      full == <<ToLowerCase(firstName), ToLowerCase(lastName)>>
  IN  IF pf.real_name # NoName /\ LowerName(pf.real_name) = full THEN 1
      ELSE IF pf.real_name_normalized # NoName
                /\ LowerName(pf.real_name_normalized) = full THEN 2
      ELSE IF pf.display_name_normalized # NoName
                /\ LowerName(pf.display_name_normalized) = full THEN 3
      ELSE 4

Resolved == search.pc = "done" /\ ~search.raised

C19_StagesOverWholeDirectory ==
  (/\ Resolved
   /\ \E u \in ActiveMembers : ExactStage(u, search.firstName, search.lastName) < 4)
    => /\ search.user # None
       /\ ExactStage(search.user, search.firstName, search.lastName) < 4

(***************************************************************************)
(* C20  resolveByName returns "not found" when no active member matches an *)
(* exact-name stage, more than one active member has the given first name  *)
(* and no member has the given last name, on whatever pages the            *)
(* candidates are listed.                                                  *)
(***************************************************************************)
HasFirstName(u, firstName) ==
  directory[u].profile.first_name # None
    /\ ToLowerCase(directory[u].profile.first_name) = ToLowerCase(firstName)

HasLastName(u, lastName) ==
  directory[u].profile.last_name # None
    /\ ToLowerCase(directory[u].profile.last_name) = ToLowerCase(lastName)

C20_AmbiguousFirstNameNotFound ==
  (/\ Resolved
   /\ \A u \in ActiveMembers : ExactStage(u, search.firstName, search.lastName) = 4
   /\ Cardinality({u \in ActiveMembers : HasFirstName(u, search.firstName)}) > 1
   /\ \A u \in DOMAIN directory : ~HasLastName(u, search.lastName))
    => search.user = None

(***************************************************************************)
(* C18  Every listing loop (cleanup, /see-birthdays, findUserByName) ends  *)
(* after at most 10 page fetches, also when every page comes with a        *)
(* cursor; at the cap it stops without raising and goes on with the        *)
(* members of the pages fetched.                                           *)
(***************************************************************************)
C18_Bounded ==
  /\ cron.attempts <= 10
  /\ see.searchAttempts <= 10 /\ see.fetched <= 10
  /\ search.searchAttempts <= 10 /\ search.fetched <= 10

\* the rows of bs whose member is listed, not deleted, on a fetched page
KeptRecords(bs) == SelectSeq(bs, LAMBDA r : ~Departed(r.user_id))

C18_Step ==
  /\ (see.pc = "list" /\ see'.pc = "done" /\ ~see'.raised)
       => /\ see'.fetched = Cardinality(FetchedPages)
          /\ see'.allUsers = FetchedMembers
  /\ (search.pc = "list" /\ search'.pc = "done" /\ ~search'.raised /\ search'.user = None)
       => search'.fetched = Cardinality(FetchedPages)
  /\ (cron.pc = "cl_fetch" /\ cron'.pc # "cl_fetch" /\ ~cron'.cleanupFailed)
       => /\ cron.attempts = Cardinality(FetchedPages)
          /\ birthdays' = KeptRecords(birthdays)

C18_ListingLoopsCapped == []C18_Bounded /\ [][C18_Step]_vars

\* on a directory of more than 10 pages /see-birthdays and findUserByName
\* have stopped at the cap
C18_Witness ==
  /\ NumPages > 10
  /\ see.pc = "done" /\ ~see.raised /\ see.fetched = 10
  /\ search.pc = "done" /\ ~search.raised /\ search.fetched = 10

(***************************************************************************)
(* C21  A findUserByName call that finds an entry for its name younger     *)
(* than CACHE_DURATION returns the cached result, "not found" included,    *)
(* without fetching the directory and without raising; a call that finds   *)
(* no such entry fetches the directory.                                    *)
(***************************************************************************)
C21_RepeatedCallServedFromCache ==
  /\ (search.pc = "done" /\ search.hit # {})
       => /\ ~search.raised
          /\ search.fetched = 0
          /\ \A e \in search.hit : search.user = e.user
  /\ (search.pc = "done" /\ search.hit = {} /\ ~search.raised) => search.fetched >= 1

(***************************************************************************)
(* C22  findUserByName never returns a member that is listed as deleted    *)
(* and never returns the system account, whichever stage matches.          *)
(***************************************************************************)
C22_NeverReturnsExcluded ==
  (Resolved /\ search.user # None)
    => /\ directory[search.user].status # "deleted"
       /\ search.user # SystemAccount

(***************************************************************************)
(* Poem Generator: generateBirthdayPoem (commands.js:676-706)              *)
(*                                                                         *)
(* A text is the sequence of its tokens: words, blanks and line breaks.    *)
(***************************************************************************)
Whitespace == {" ", "\n"}

\* the longest text the generative call returns
MaxTextLen == 3

PoemTokens == Whitespace \cup {"roses"}

PoemTexts == UNION {[1..n -> PoemTokens] : n \in 0..MaxTextLen}

\* what anthropic.messages.create can do: time out, answer with an error
\* status, or resolve to a response with no or one text block
ApiResponses ==
  {[kind |-> "timeout", content |-> <<>>], [kind |-> "error", content |-> <<>>],
   [kind |-> "ok", content |-> <<>>]}
  \cup {[kind |-> "ok", content |-> <<[text |-> x]>>] : x \in PoemTexts}

\* the undelivered descriptions handed over by the Thread Poster
DescriptionLists ==
  {<<>>, <<[message |-> <<"kind">>]>>, <<[message |-> <<"kind">>], [message |-> <<"funny">>]>>}

\* String.prototype.trim
RECURSIVE TrimStart(_)
TrimStart(x) ==
  IF x # <<>> /\ Head(x) \in Whitespace THEN TrimStart(Tail(x)) ELSE x

RECURSIVE TrimEnd(_)
TrimEnd(x) ==
  IF x # <<>> /\ x[Len(x)] \in Whitespace THEN TrimEnd(SubSeq(x, 1, Len(x) - 1)) ELSE x

Trim(x) == TrimEnd(TrimStart(x))

\* descriptions.map(desc => desc.message).join('\n')
RECURSIVE JoinLines(_)
JoinLines(descs) ==
  IF descs = <<>> THEN <<>>
  ELSE IF Len(descs) = 1 THEN descs[1].message
  ELSE descs[1].message \o <<"\n">> \o JoinLines(Tail(descs))

FallbackPoem ==
  <<"Here's to another year of joy and cheer,", "\n",
    "With colleagues who hold you ever so dear.", "\n",
    "Your presence makes our workplace bright,", "\n",
    "Happy birthday, may your day be just right!">>

\* the try block returns response.content[0].text.trim(); a rejected call and
\* a response without a first block end in the catch block
GenerateBirthdayPoem(response) ==
  IF response.kind = "ok" /\ response.content # <<>>
    THEN Trim(response.content[1].text)
    ELSE FallbackPoem

InitPoem ==
  /\ today = StartDate
  /\ directory = [u \in Users |-> [status |-> "active", page |-> 1, kind |-> "member"]]
  /\ birthdays = <<>>
  /\ InitProcs
  /\ probe \in {[pc |-> "call", descriptionsText |-> JoinLines(d), response |-> r,
                  raised |-> FALSE, poem |-> <<>>] :
                   d \in DescriptionLists, r \in ApiResponses}

\* one call of generateBirthdayPoem: nothing leaves its try/catch
PoemReturn ==
  /\ probe.pc = "call"
  /\ probe' = [probe EXCEPT !.pc = "returned", !.poem = GenerateBirthdayPoem(probe.response)]
  /\ UNCHANGED <<env, store, procs, posted, lookup>>

NextPoem == PoemReturn

SpecPoem == InitPoem /\ [][NextPoem]_vars

\* the generative call produced no text
EmptyOutput(response) ==
  \/ response.content = <<>>
  \/ \A i \in DOMAIN response.content[1].text : response.content[1].text[i] \in Whitespace

(***************************************************************************)
(* C23  generateBirthdayPoem never raises and always returns a non-empty   *)
(* text; after a timeout, an error response or an empty output it returns  *)
(* the fallback poem.                                                      *)
(***************************************************************************)
C23_PoemNeverEmpty ==
  probe.pc = "returned"
    => /\ ~probe.raised
       /\ probe.poem # <<>>
       /\ (probe.response.kind # "ok" \/ EmptyOutput(probe.response))
            => probe.poem = FallbackPoem

(***************************************************************************)
(* The form handler on its own: submissions for a celebrant with and       *)
(* without a birthday record, first and repeated, with failing posts.      *)
(***************************************************************************)
InitSubmit ==
  /\ today = StartDate
  /\ directory = [u \in Users |-> [status |-> "active", page |-> 1, kind |-> "member"]]
  /\ probe = NoProbe
  /\ birthdays \in {<<>>} \cup {<<[user_id |-> u, birth_date |-> d]>> : u \in Celebrants, d \in BirthDates}
  /\ InitHandlers
  /\ ending = Watching

NextSubmit == SubmissionsOf(Texts \cup MoreTexts, Texts)

SpecSubmit == InitSubmit /\ [][NextSubmit]_vars

\* the messages that can reach the sender of a submission for a celebrant
\* without a birthday record
UnknownCelebrantReplies == {Delivered(OuterCatch, f) : f \in 0..MaxFailing} \ {None}

(***************************************************************************)
(* C24  A submission for a celebrant without a birthday record writes no   *)
(* row to birthday_messages or description_messages, and what it tells     *)
(* the sender is told after no other failure of a submission.              *)
(***************************************************************************)
C24_UnknownCelebrantDistinct ==
  /\ \A i \in 1..Len(messages) : HasRecord(birthdays, messages[i].celebrant_id)
  /\ \A i \in 1..Len(descriptions) : HasRecord(birthdays, descriptions[i].celebrant_id)
  /\ ending.error = CelebrantUnknown => ending.changes = 0
  /\ (ending.handler = "submit" /\ ending.error \notin {None, CelebrantUnknown})
       => ending.reply \notin UnknownCelebrantReplies

\* the submission in flight repeats rows stored today
IsRepeat ==
  /\ sub.msg # None => IsDuplicate(messages, sub.c, sub.s, sub.msg, TodaySerial(today))
  /\ sub.desc # None => IsDuplicate(descriptions, sub.c, sub.s, sub.desc, TodaySerial(today))

(***************************************************************************)
(* C25  When the inserts of a submission that repeats rows stored on the   *)
(* same day have run, the store is unchanged and zero rows are reported    *)
(* changed; no error comes of it: unless a post fails the sender gets the  *)
(* confirmation, as for a first submission.                                *)
(***************************************************************************)
C25_Step ==
  (/\ sub.pc = "info" /\ sub'.pc = "idle"
   /\ ending'.error # InfoFailed
   /\ ForeignKeyOk(birthdays, sub.c)
   /\ IsRepeat)
    => /\ store' = store
       /\ ending'.changes = 0
       /\ ending'.error \in {None, PostFailed}
       /\ ending'.error = None => ending'.reply = Confirmation

C25_RepeatIsNoFailure == [][C25_Step]_vars

C25_Witness ==
  /\ ending.handler = "submit"
  /\ ending.error = None
  /\ ending.changes = 0
  /\ ending.reply = Confirmation
  /\ messages # <<>>

(***************************************************************************)
(* Date validation: isValidDate (commands.js:134-144)                      *)
(*                                                                         *)
(* A string is the sequence of its characters.                             *)
(***************************************************************************)
Digits == <<"0", "1", "2", "3", "4", "5", "6", "7", "8", "9">>

IsDigit(ch) == \E i \in 1..Len(Digits) : Digits[i] = ch

\* Number("d")
DigitValue(ch) == (CHOOSE i \in 1..Len(Digits) : Digits[i] = ch) - 1

\* /^\d{2}-\d{2}$/.test(dateStr)
MatchesPattern(dateStr) ==
  /\ Len(dateStr) = 5
  /\ IsDigit(dateStr[1]) /\ IsDigit(dateStr[2])
  /\ dateStr[3] = "-"
  /\ IsDigit(dateStr[4]) /\ IsDigit(dateStr[5])

\* dateStr.split('-').map(Number) of a string that matches the pattern
DayMonth(dateStr) ==
  <<10 * DigitValue(dateStr[1]) + DigitValue(dateStr[2]),
    10 * DigitValue(dateStr[4]) + DigitValue(dateStr[5])>>

\* a check against the months of a year that is not a leap year
DaysInReferenceMonth_NonLeap(month) == DaysInMonth(ReferenceYear + 1, month)

\* new Date(2000, month, 0).getDate()
DaysInReferenceMonth(month) == DaysInMonth(ReferenceYear, month)

IsValidDate(dateStr) ==
  IF ~MatchesPattern(dateStr) THEN FALSE
  ELSE LET day == DayMonth(dateStr)[1]
           month == DayMonth(dateStr)[2]
       IN  IF month < 1 \/ month > 12 THEN FALSE
           ELSE IF day < 1 \/ day > DaysInReferenceMonth(month) THEN FALSE
           ELSE TRUE

\* the strings validated: every string of up to MaxDateLen of the characters
\* DateChars, and some longer ones
MaxDateLen == 5
DateChars == {"0", "1", "2", "3", "4", "5", "9", "-"}

DateStrings ==
  UNION {[1..n -> DateChars] : n \in 0..MaxDateLen}
  \cup {<<"2", "9", "-", "0", "2", "0">>, <<"0", "2", "9", "-", "0", "2">>,
        <<"2", "9", "-", "0", "2", "\n">>, <<"2", "9", "/", "0", "2">>,
        <<"x", "9", "-", "0", "2">>}

InitDate ==
  /\ today = StartDate
  /\ directory = [u \in Users |-> [status |-> "active", page |-> 1, kind |-> "member"]]
  /\ birthdays = <<>>
  /\ InitProcs
  /\ probe \in {[pc |-> "call", dateStr |-> x, valid |-> FALSE] : x \in DateStrings}

ValidateDate ==
  /\ probe.pc = "call"
  /\ probe' = [probe EXCEPT !.pc = "returned", !.valid = IsValidDate(probe.dateStr)]
  /\ UNCHANGED <<env, store, procs, posted, lookup>>

NextValidation == ValidateDate

SpecDate == InitDate /\ [][NextValidation]_vars

\* the days of the months of a leap year
LeapYearMonths == <<31, 29, 31, 30, 31, 30, 31, 31, 30, 31, 30, 31>>

\* DD-MM: two digits, a hyphen, two digits; month in 1..12, day in the month
IsDayMonth(x) ==
  /\ Len(x) = 5
  /\ x[3] = "-"
  /\ \E d \in 0..99, m \in 1..12 :
       /\ x[1] = Digits[(d \div 10) + 1] /\ x[2] = Digits[(d % 10) + 1]
       /\ x[4] = Digits[(m \div 10) + 1] /\ x[5] = Digits[(m % 10) + 1]
       /\ 1 <= d /\ d <= LeapYearMonths[m]

(***************************************************************************)
(* C30  isValidDate accepts a string exactly when it is two digits, a      *)
(* hyphen and two digits with month in 1..12 and day in 1..(days of that   *)
(* month in a leap year): it accepts "29-02" and rejects "30-02", "31-04", *)
(* "00-05", "10-13" and "1-5".                                             *)
(***************************************************************************)
C30_AcceptsExactlyDayMonth ==
  probe.pc = "returned"
    => /\ probe.valid <=> IsDayMonth(probe.dateStr)
       /\ probe.dateStr = <<"2", "9", "-", "0", "2">> => probe.valid
       /\ probe.dateStr \in {<<"3", "0", "-", "0", "2">>, <<"3", "1", "-", "0", "4">>,
                             <<"0", "0", "-", "0", "5">>, <<"1", "0", "-", "1", "3">>,
                             <<"1", "-", "5">>} => ~probe.valid

C30_Witness ==
  /\ probe.pc = "returned"
  /\ probe.dateStr = <<"2", "9", "-", "0", "2">>
  /\ probe.valid

(***************************************************************************)
(* /set-birthday and /set-birthday-auto on their text                      *)
(* (commands.js:148-205, 208-301)                                          *)
(*                                                                         *)
(* command.text is the sequence of its words and blanks; no two words are  *)
(* adjacent.                                                               *)
(***************************************************************************)
\* the characters of the words that stand where a date is expected
Chars(w) ==
  CASE w = "25-12" -> <<"2", "5", "-", "1", "2">>
    [] w = "29-02" -> <<"2", "9", "-", "0", "2">>
    [] w = "30-02" -> <<"3", "0", "-", "0", "2">>
    [] w = "1-5" -> <<"1", "-", "5">>
    [] w = "Roe" -> <<"R", "o", "e">>
    [] w = "" -> <<>>

\* String.prototype.split(' '): a blank ends a part, two blanks in a row
\* enclose an empty part
RECURSIVE SplitFrom(_, _)
SplitFrom(x, part) ==
  IF x = <<>> THEN <<part>>
  ELSE IF Head(x) = " " THEN <<part>> \o SplitFrom(Tail(x), "")
  ELSE SplitFrom(Tail(x), Head(x))

\* command.text.trim().split(' ')
Parts(text) == SplitFrom(Trim(text), "")

\* userMention.replace(/^<@([A-Z0-9]+)\|[^>]+>$/, '$1')
UserIdOf(userMention) ==
  CASE userMention = "<@U1|jane>" -> "U1"
    [] userMention = "<@U2|bob>" -> "U2"
    [] userMention = "<@U9|ghost>" -> "U9"
    [] OTHER -> userMention

\* what /set-birthday says
SetUsage == "Please use the format: /set-birthday @user DD-MM"
DateHelp == "Please provide a valid date in DD-MM format (e.g., 11-02 for February 11th)"
SetDone == "firstName's birthday set for ..."
SetLookupError == "Error looking up user. Please try again with their exact Slack username."
SetError == "Sorry, there was an error setting the birthday. Please try again."

\* what /set-birthday-auto says of its text
AutoUsage == "Please use the format: /set-birthday-auto FirstName LastName DD-MM"
NamesHelp == "Please provide valid first and last names"

\* the errors of the text
WrongParts == "wrong number of parts"
InvalidDate == "invalid date"
EmptyName == "empty name"

\* outer catch (commands.js:201-204): say, with no catch around it
SetOuterCatch == <<SetError>>

\* inner catch (commands.js:196-199): say, inside the outer try
SetInnerCatch == <<SetLookupError>> \o SetOuterCatch

\* /set-birthday from ack to its last say, with parts and the outcome of its
\* checks at hand; users.info is rejected for an id the platform does not
\* know and whenever the call fails (infoOk false)
SetBirthdayParsed(text, parts, malformed, ackOk, infoOk, failing) ==
  /\ LET userId == UserIdOf(parts[1])
         found == ~malformed /\ infoOk /\ userId \in DOMAIN directory
         written == ackOk /\ found
         chain == IF Len(parts) # 2 THEN <<SetUsage>> \o SetOuterCatch
                  ELSE IF malformed THEN <<DateHelp>> \o SetOuterCatch
                  ELSE IF found THEN <<SetDone>> \o SetInnerCatch
                  ELSE SetInnerCatch
         error == IF ~ackOk THEN AckFailed
                  ELSE IF Len(parts) # 2 THEN WrongParts
                  ELSE IF malformed THEN InvalidDate
                  ELSE IF ~found THEN UserNotFound
                  ELSE IF failing > 0 THEN SayFailed ELSE None
     IN  /\ birthdays' = IF written
                           THEN InsertBirthday(birthdays, userId, DayMonth(Chars(parts[2])))
                           ELSE birthdays
         /\ ending' = IF ackOk
                        THEN Ended("set-birthday", text, error, Delivered(chain, failing),
                                   Escapes(chain, failing), IF written THEN 1 ELSE 0)
                        ELSE Ended("set-birthday", text, error, None, TRUE, 0)
  /\ UNCHANGED <<env, messages, descriptions, nextId, procs, posted, probe, resolver>>

\* /set-birthday on command.text
SetBirthdayCommand(text, ackOk, infoOk, failing) ==
  SetBirthdayParsed(text, Parts(text),
                    Len(Parts(text)) # 2 \/ ~IsValidDate(Chars(Parts(text)[2])),
                    ackOk, infoOk, failing)

\* the checks /set-birthday-auto makes of its text, in their order
AutoTextError(parts) ==
  IF Len(parts) < 3 THEN WrongParts
  ELSE IF ~IsValidDate(Chars(parts[3])) THEN InvalidDate
  ELSE IF parts[1] = "" \/ parts[2] = "" THEN EmptyName
  ELSE None

\* /set-birthday-auto, from ack to the call of findUserByName or, for a text
\* it rejects, to its last say
AutoStart(text, ackOk, failing) ==
  /\ search.pc = "idle"
  /\ LET parts == Parts(text)
         error == AutoTextError(parts)
         chain == (IF error = WrongParts THEN <<AutoUsage>>
                   ELSE IF error = InvalidDate THEN <<DateHelp>>
                   ELSE <<NamesHelp>>) \o AutoOuterCatch
     IN  IF ~ackOk
           THEN /\ ending' = Ended("set-birthday-auto", text, AckFailed, None, TRUE, 0)
                /\ UNCHANGED search
           ELSE IF error # None
             THEN /\ ending' = Ended("set-birthday-auto", text, error, Delivered(chain, failing),
                                     Escapes(chain, failing), 0)
                  /\ UNCHANGED search
             ELSE /\ search' = [Called(parts[1], parts[2]) EXCEPT
                                   !.text = text, !.birthDate = DayMonth(Chars(parts[3]))]
                  /\ UNCHANGED ending
  /\ UNCHANGED <<env, store, procs, posted, probe, userCache, now, see>>

\* the texts given to /set-birthday
SetTexts ==
  {<<" ", "<@U1|jane>", " ", "29-02", " ">>, <<"<@U1|jane>">>,
   <<"<@U1|jane>", " ", " ", "25-12">>, <<"<@U1|jane>", " ", "30-02">>,
   <<"<@U9|ghost>", " ", "29-02">>, <<"jane", " ", "1-5">>}

\* the texts given to /set-birthday-auto
AutoTexts ==
  {<<"Jane", " ", "Roe", " ", "25-12">>, <<"Jane", " ", "Roe">>,
   <<"Jane", " ", "Roe", " ", "30-02">>, <<"Jane", " ", " ", "Roe", " ", "25-12">>,
   <<"Jane", " ", " ", "25-12", " ", "Roe">>,
   <<" ", "Bob", " ", "Roe", " ", "25-12", " ", "Roe">>}

\* directories of two homonyms, or of two members whose names differ, on one
\* page or on two
CommandDirectories ==
  {dir \in ResolveDirectories :
     /\ \A u \in Users : dir[u].status = "active"
     /\ dir["U1"].profile = JaneSmith /\ dir["U1"].page = 1
     /\ dir["U2"].profile \in {JaneSmith, BobDoe}}

InitCommands ==
  /\ today = StartDate
  /\ directory \in CommandDirectories
  /\ probe = NoProbe
  /\ birthdays = <<>>
  /\ InitHandlers
  /\ ending = Watching

NextCommands ==
  \/ \E text \in SetTexts, ackOk \in BOOLEAN, infoOk \in BOOLEAN, failing \in 0..MaxFailing :
       SetBirthdayCommand(text, ackOk, infoOk, failing)
  \/ \E text \in AutoTexts, ackOk \in BOOLEAN, failing \in 0..MaxFailing :
       AutoStart(text, ackOk, failing)
  \/ FindPageFail
  \/ FindPage
  \/ AutoReturn(search.birthDate)

SpecCommands == InitCommands /\ [][NextCommands]_vars

\* no active member matches the name at any stage
MatchesNobody(firstName, lastName) ==
  \A u \in ActiveMembers :
     /\ ExactStage(u, firstName, lastName) = 4
     /\ ~HasFirstName(u, firstName)
     /\ ~HasLastName(u, lastName)

\* no exact match, several members of that first name, nobody of that last name
IsAmbiguous(firstName, lastName) ==
  /\ \A u \in ActiveMembers : ExactStage(u, firstName, lastName) = 4
  /\ Cardinality({u \in ActiveMembers : HasFirstName(u, firstName)}) > 1
  /\ \A u \in DOMAIN directory : ~HasLastName(u, lastName)

\* the text does not have the parts of "@user DD-MM"
SetTextMalformed(text) ==
  \/ Len(Parts(text)) # 2
  \/ ~IsValidDate(Chars(Parts(text)[2]))

\* the text does not have the parts of "FirstName LastName DD-MM"
AutoTextMalformed(text) ==
  \/ Len(Parts(text)) # 3
  \/ ~IsValidDate(Chars(Parts(text)[3]))
  \/ Parts(text)[1] = "" \/ Parts(text)[2] = ""

(***************************************************************************)
(* C26  /set-birthday and /set-birthday-auto leave the table birthdays     *)
(* unchanged when the text has the wrong number of parts, an invalid date  *)
(* or an empty name part, and when the name matches no member or is        *)
(* ambiguous; every row they write has a valid date and a member of the    *)
(* directory.                                                              *)
(***************************************************************************)
C26_Step ==
  /\ (ending'.handler = "set-birthday"
       /\ (SetTextMalformed(ending'.text)
            \/ UserIdOf(Parts(ending'.text)[1]) \notin DOMAIN directory))
       => birthdays' = birthdays
  /\ (ending'.handler = "set-birthday-auto" /\ search' = search
       /\ AutoTextMalformed(ending'.text))
       => birthdays' = birthdays
  /\ (search.pc = "done" /\ search'.pc = "idle"
       /\ (\/ AutoTextMalformed(search.text)
           \/ MatchesNobody(search.firstName, search.lastName)
           \/ IsAmbiguous(search.firstName, search.lastName)))
       => birthdays' = birthdays
  /\ \A i \in 1..Len(birthdays') :
       \/ \E j \in 1..Len(birthdays) : birthdays[j] = birthdays'[i]
       \/ /\ birthdays'[i].birth_date \in ValidDates
          /\ birthdays'[i].user_id \in DOMAIN directory

C26_MalformedInputWritesNothing == [][C26_Step]_vars

(***************************************************************************)
(* C27  No exception leaves a command handler: a failing users.info,       *)
(* users.list or say, the say of a catch block included, is caught by the  *)
(* handler.                                                                *)
(***************************************************************************)
C27_NoExceptionEscapes == ~ending.escaped

(***************************************************************************)
(* The Birthday Store on its own: the prepared statements of database.js   *)
(* run in any order.  probe holds the statement run last and what it       *)
(* changed, the argument of the last insertBirthday for each user, and the *)
(* ids of the rows that were undelivered when a mark statement ran.        *)
(***************************************************************************)
Never == <<"never">>

RowKinds == {"msg", "desc"}

\* the dates handed to insertBirthday
UpsertDates == {<<8, 6>>, <<29, 2>>, Null}

InitStore ==
  /\ today = StartDate
  /\ directory = [u \in Users |-> [status |-> "active", page |-> 1, kind |-> "member"]]
  /\ birthdays = <<>>
  /\ InitProcs
  /\ probe = [stmt |-> None, kind |-> None, user |-> None, changes |-> 0,
              last |-> [u \in Users |-> Never],
              marked |-> [k \in RowKinds |-> {}]]

Table(k) == IF k = "msg" THEN messages ELSE descriptions

\* statements.insertBirthday.run(u, date)
RunInsertBirthday(u, date) ==
  /\ birthdays' = InsertBirthday(birthdays, u, date)
  /\ probe' = [probe EXCEPT !.stmt = "insertBirthday", !.kind = None, !.user = u,
                             !.changes = 1, !.last[u] = date]
  /\ UNCHANGED <<env, messages, descriptions, nextId, procs, posted, lookup>>

\* statements.insertBirthdayMessage.run / insertDescriptionMessage.run: the
\* foreign key rejects a celebrant without a birthday row
RunInsertRow(k, c, s, m) ==
  /\ nextId[k] <= MaxIds
  /\ LET day == TodaySerial(today)
         new == ForeignKeyOk(birthdays, c) /\ ~IsDuplicate(Table(k), c, s, m, day)
         tbl == IF ForeignKeyOk(birthdays, c)
                  THEN InsertOrIgnore(Table(k), nextId[k], c, s, m, day)
                  ELSE Table(k)
     IN  /\ messages' = IF k = "msg" THEN tbl ELSE messages
         /\ descriptions' = IF k = "desc" THEN tbl ELSE descriptions
         /\ nextId' = [nextId EXCEPT ![k] = IF new THEN @ + 1 ELSE @]
         /\ probe' = [probe EXCEPT !.stmt = "insertRow", !.kind = k, !.user = c,
                                    !.changes = IF new THEN 1 ELSE 0]
  /\ UNCHANGED <<env, birthdays, procs, posted, lookup>>

\* statements.markMessagesAsSent.run(c) / markDescriptionMessagesAsSent.run(c)
RunMarkSent(k, c) ==
  /\ messages' = IF k = "msg" THEN MarkSent(messages, c) ELSE messages
  /\ descriptions' = IF k = "desc" THEN MarkSent(descriptions, c) ELSE descriptions
  /\ probe' = [probe EXCEPT !.stmt = "markSent", !.kind = k, !.user = c,
                             !.changes = Len(Undelivered(Table(k), c)),
                             !.marked[k] = @ \cup {Undelivered(Table(k), c)[i].id :
                                                     i \in 1..Len(Undelivered(Table(k), c))}]
  /\ UNCHANGED <<env, birthdays, nextId, procs, posted, lookup>>

\* the three delete statements, as the cleanup runs them for a user
RunDelete(u) ==
  /\ HasRecord(birthdays, u)
  /\ messages' = DeleteRowsForUser(messages, u)
  /\ descriptions' = DeleteRowsForUser(descriptions, u)
  /\ birthdays' = DeleteUser(birthdays, u)
  /\ probe' = [probe EXCEPT !.stmt = "delete", !.kind = None, !.user = u, !.changes = 1,
                             !.last[u] = Never]
  /\ UNCHANGED <<env, nextId, procs, posted, lookup>>

NextStore ==
  \/ \E u \in Users, date \in UpsertDates : RunInsertBirthday(u, date)
  \/ \E k \in RowKinds, c \in Users, s \in Senders, m \in Texts : RunInsertRow(k, c, s, m)
  \/ \E k \in RowKinds, c \in Users : RunMarkSent(k, c)
  \/ \E u \in Users : RunDelete(u)

SpecStore == InitStore /\ [][NextStore]_vars

(***************************************************************************)
(* C28  After any sequence of insertBirthday statements the table holds    *)
(* exactly one row for each user it was run for (and who was not deleted   *)
(* since) and none for the others; getBirthday returns the date of the     *)
(* last run for that user, the placeholder date if that run had no date.   *)
(***************************************************************************)
C28_OneRecordLastDate ==
  probe.stmt # None =>
    \A u \in Users :
       /\ Cardinality({i \in 1..Len(birthdays) : birthdays[i].user_id = u})
            = IF probe.last[u] = Never THEN 0 ELSE 1
       /\ probe.last[u] # Never
            => /\ Len(GetBirthday(birthdays, u)) = 1
               /\ GetBirthday(birthdays, u)[1].birth_date
                    = IF probe.last[u] = Null THEN <<1900, 1, 1>> ELSE probe.last[u]

\* both users have a row; U1's came last and its last statement had no date
C28_Witness ==
  /\ probe.stmt = "insertBirthday"
  /\ probe.last["U1"] = Null /\ probe.last["U2"] = <<29, 2>>
  /\ Len(birthdays) = 2
  /\ birthdays[1].user_id = "U2"

(***************************************************************************)
(* C29  For tributes and for descriptions: after a mark statement for a    *)
(* celebrant the read of undelivered rows returns none of the rows that    *)
(* were there when it ran, then and later; a second mark statement with    *)
(* no insert in between changes zero rows; a mark statement leaves the     *)
(* rows of the other celebrants and the other table as they are.           *)
(***************************************************************************)
C29_MarkedStayOut ==
  probe.stmt # None =>
    \A k \in RowKinds, c \in Users :
       \A i \in 1..Len(Undelivered(Table(k), c)) :
          Undelivered(Table(k), c)[i].id \notin probe.marked[k]

C29_Step ==
  probe'.stmt = "markSent" =>
    LET k == probe'.kind
        c == probe'.user
        old == IF k = "msg" THEN messages ELSE descriptions
        new == IF k = "msg" THEN messages' ELSE descriptions'
    IN  /\ Undelivered(new, c) = <<>>
        /\ Len(new) = Len(old)
        /\ \A i \in 1..Len(old) : old[i].celebrant_id # c => new[i] = old[i]
        /\ k = "msg" => descriptions' = descriptions
        /\ k = "desc" => messages' = messages
        /\ birthdays' = birthdays
        /\ (probe.stmt = "markSent" /\ probe.kind = k /\ probe.user = c)
             => probe'.changes = 0

C29_MarkDelivered == []C29_MarkedStayOut /\ [][C29_Step]_vars

\* a tribute for U1 was marked, one for U2 is still undelivered, and the
\* mark statement for U1 has run a second time
C29_Witness ==
  /\ probe.stmt = "markSent" /\ probe.kind = "msg" /\ probe.user = "U1"
  /\ probe.changes = 0
  /\ probe.marked["msg"] # {}
  /\ Len(Undelivered(messages, "U2")) = 1
  /\ \E i \in 1..Len(messages) : messages[i].celebrant_id = "U1" /\ messages[i].sent
  /\ Len(Undelivered(descriptions, "U1")) = 1

(***************************************************************************)
(* The yearly cycle of one record (SpecCycle): the scheduler runs once a   *)
(* day, from the first to the last day of Years, over a store that holds   *)
(* one birthday record whose member stays in the directory.                *)
(***************************************************************************)
\* the stored dates followed through the years
CycleDates == {<<29, 2>>, <<3, 1>>, <<15, 6>>, <<31, 12>>}

FirstDay == [y |-> FirstYear, m |-> 1, d |-> 1]
LastDay == [y |-> FirstYear + NumYears - 1, m |-> 12, d |-> 31]

\* what the runs so far did for the record: day and act of the last run,
\* cycle: the dispatches since the last Thread Poster, whole: a Thread Poster
\* dispatch lies before them
NoRuns(bd) ==
  [birth |-> bd, day |-> FirstDay, act |-> "none", cycle |-> <<>>, whole |-> FALSE,
   done |-> FALSE]

Observed(p, t, act) ==
  LET over == p.cycle # <<>> /\ p.cycle[Len(p.cycle)] = "thread"
      before == IF over /\ act # "noop" THEN <<>> ELSE p.cycle
  IN  [p EXCEPT !.day = t, !.act = act, !.done = TRUE,
                !.cycle = IF act = "noop" THEN before ELSE Append(before, act),
                !.whole = @ \/ (over /\ act # "noop")]

InitCycle ==
  /\ today = FirstDay
  /\ directory = [u \in Users |-> [status |-> "active", page |-> 1, kind |-> "member"]]
  /\ \E bd \in CycleDates :
       /\ birthdays = <<[user_id |-> "U1", birth_date |-> bd]>>
       /\ probe = NoRuns(bd)
  /\ InitProcs

\* the cron callback has returned; what it did for the record is noted
CronReturnNoted ==
  /\ cron.pc = "end"
  /\ Len(cron.log) = 1
  /\ cron' = IdleCron
  /\ probe' = Observed(probe, today, cron.log[1].act)
  /\ UNCHANGED <<env, store, trigger, poster, cmd, sub, posted, lookup>>

\* the next 09:00 trigger is a day later
NextRunDay ==
  /\ ranToday
  /\ cron.pc = "idle"
  /\ TodaySerial(today) < TodaySerial(LastDay)
  /\ today' = NextDate(today)
  /\ ranToday' = FALSE
  /\ UNCHANGED <<directory, setsRun, cmdsRun, store, procs, posted, probe, lookup>>

NextCycle ==
  \/ CronStart
  \/ CleanupDelete
  \/ CleanupFetchFail
  \/ CronCollect
  \/ CronDigest
  \/ CronThread
  \/ CronSkip
  \/ CronTriggerReturn
  \/ CronThreadReturn
  \/ CronDigestPosted
  \/ CronDigestFail
  \/ CronFinish
  \/ CronReturnNoted
  \/ TriggerSteps("cron")
  \/ PosterFail("cron")
  \/ PosterAnnounced("cron")
  \/ NextRunDay

SpecCycle == InitCycle /\ [][NextCycle]_vars

\* s is an initial part of q
IsPrefix(s, q) == Len(s) <= Len(q) /\ \A i \in 1..Len(s) : s[i] = q[i]

\* the dispatch the yearly cycle of stored date bd has on day t
CycleDispatch(t, bd) == ActionAt(NextOccurrence(t, bd) - TodaySerial(t))

(***************************************************************************)
(* C31  For a record with a fixed valid date whose member stays in the     *)
(* directory, the daily runs dispatch in each yearly cycle Collection      *)
(* Trigger on the run 7 days before the birthday, the admin digest on the  *)
(* run 1 day before, Thread Poster on the birthday itself, in this order,  *)
(* and nothing on any other run; Thread Poster is never dispatched before  *)
(* Collection Trigger within a cycle.                                      *)
(***************************************************************************)
C31_CycleInOrder ==
  probe.done =>
     /\ probe.act = CycleDispatch(probe.day, probe.birth)
     /\ (probe.act = "thread") <=> IsBirthdayToday(probe.day, probe.birth)
     /\ probe.whole => IsPrefix(probe.cycle, <<"collect", "digest", "thread">>)

\* the rows of tbl flagged delivered have been posted, by the count of posts
FlaggedRowsPosted(tbl, count) ==
  \A i \in 1..Len(tbl) : tbl[i].sent => count[tbl[i].id] >= 1

(***************************************************************************)
(* C32  Under every interleaving of form submissions with a running Thread *)
(* Poster, a tribute or description row is marked delivered only if its    *)
(* content was posted in a thread reply: no row stored after Thread Poster *)
(* read the undelivered rows is flagged without having been posted.        *)
(***************************************************************************)
C32_FlaggedOnlyIfPosted ==
  /\ FlaggedRowsPosted(messages, posted.msg)
  /\ FlaggedRowsPosted(descriptions, posted.desc)

(***************************************************************************)
(* The scheduler variant of src/unnamed/part_000 (SpecVariant): its offset *)
(* beside the offset of birthday-cron.js, for every current date and every *)
(* stored date.                                                            *)
(***************************************************************************)
\* the local hour of the trigger: cron.schedule('0 9 * * *', ...)
TriggerHour == 9

\* Math.ceil(h / 24) for a whole number of hours h
CeilDays(h) == -((-h) \div 24)

\* diffDays of part_000:50-57: today is the moment of the run, birthdayDate
\* the local midnight of the stored day and month in today's year
VariantDiffDays(t, bd, shift) ==
  CeilDays(24 * (DateSerial(t.y, bd[2], bd[1]) - TodaySerial(t)) - TriggerHour + shift)

\* the offsets the variant can compute for a stored date today
VariantOffsets(bd) == {VariantDiffDays(today, bd, s) : s \in DstShifts}

\* part_000:59-74
VariantChoice(off) ==
  IF off = 7 THEN "collect"
  ELSE IF off = 1 THEN "digest"
  ELSE IF off = 0 THEN "thread"
  ELSE "noop"

InitVariant ==
  /\ today \in AllDays
  /\ directory = [u \in Users |-> [status |-> "active", page |-> 1, kind |-> "member"]]
  /\ probe = [birth |-> <<>>, offset |-> 0, variant |-> 0, done |-> FALSE]
  /\ birthdays = <<>>
  /\ InitProcs

\* both schedulers compute the offset of one stored date on the same day
ComputeBoth ==
  /\ ~probe.done
  /\ \E bd \in ValidDates \cup {Placeholder} :
       \E off \in Offsets(bd), variant \in VariantOffsets(bd) :
          probe' = [birth |-> bd, offset |-> off, variant |-> variant, done |-> TRUE]
  /\ UNCHANGED <<env, store, procs, posted, lookup>>

NextVariant == ComputeBoth

SpecVariant == InitVariant /\ [][NextVariant]_vars

\* a stored date in the first week of January
InFirstWeekOfJanuary(bd) == bd[2] = 1 /\ bd[1] \in 1..7

(***************************************************************************)
(* C33  Run at its 09:00 trigger, the scheduler variant of part_000        *)
(* computes the same dispatch as birthday-cron.js for every current date   *)
(* and stored birthday: its offset for a birthday whose occurrence this    *)
(* year has passed rolls to next year and is never negative, so a birthday *)
(* in the first week of January gets Collection Trigger on the run 7 days  *)
(* earlier in late December.                                               *)
(***************************************************************************)
C33_VariantDispatchesAlike ==
  probe.done =>
     /\ VariantChoice(probe.variant) = DispatchChoice(probe.offset)
     /\ probe.variant >= 0
     /\ (InFirstWeekOfJanuary(probe.birth) /\ today.m = 12 /\ today.d = probe.birth[1] + 24)
           => VariantChoice(probe.variant) = "collect"

====
